---- MODULE Spec2Model ----
(***************************************************************************)
(* A model of the HA-flip trading engine: signal engine, slot manager,     *)
(* order executor, risk manager and kill switch, together with the parts   *)
(* of the exchange and of the SQLite store that they talk to.              *)
(*                                                                         *)
(* Every coroutine is cut at its awaits: one action is the code that runs  *)
(* between two suspension points of one asyncio task.  The tasks are the   *)
(* public websocket reader (kline and ticker handlers, signal processing), *)
(* the private websocket reader (position updates), the kill-switch loop,  *)
(* the coin-refresh loop and the one-shot cooldown timers.                 *)
(***************************************************************************)
EXTENDS Integers, Sequences, FiniteSets, TLC

\* ------------------------------------------------------------------ bounds

\* Slots of the model (config: num_slots).
NumSlots == 2
\* Rows the trades table may hold.
MaxTrades == 2
\* Cooldown periods the clock runs through.
MaxTime == 1
\* Last 4h window the exchange streams.
MaxWindow == 1
\* Starts of the process that get past the kill-flag check.
MaxBoots == 2
\* Deliveries of 4h klines in the out-of-order specification.
MaxKlineMsgs == 4
\* Levels of the take-profit ladder (config: tp_levels).
TpLevels == 4
\* Entry attempts of execute_entry (config: max_fill_retries) and how many of
\* them are PostOnly (config: post_only_retries).
MaxFillRetries == 2
PostOnlyRetries == 1

\* ------------------------------------------------------- program constants

InitialBalance == 10
MinBalance == 5
Leverage == 8
\* cooldown_minutes; the clock counts minutes.
CooldownMinutes == 30
\* initial_sl_pct = 0.025 = SlPctNum / SlPctDen.
SlPctNum == 25
SlPctDen == 1000
\* The ATR fallback is entry * 0.01 = entry / AtrDen; ATR values are in 1/AtrDen.
AtrDen == 100
\* The confirmed HA series keeps its last HaSeriesCap candles.
HaSeriesCap == 50
\* PostOnly reject codes of order create.
PostOnlyRejectA == 170213
PostOnlyRejectB == 170217

\* kill_switch_threshold is 30 for 8 slots of 10; the model keeps the ratio.
KillSwitchThreshold == (30 * NumSlots * InitialBalance) \div 80

\* ------------------------------------------------------------ environment

Symbols == {"BTC", "ETH"}
Slots == 1..NumSlots
None == "None"

\* The instrument metadata the exchange reports (tick size, lot step, minimum
\* quantity); quantities are counted in lot steps of 1/100.
CoinSpec == [tick_size |-> 2, qty_step |-> 1, min_qty |-> 1, qty_den |-> 100]
\* The top-N the exchange may report; it is empty when the tickers query fails.
Universes == {{}, {"BTC"}}
\* Top-of-book prices the order book may show.
BookPrices == {81}
\* ATR values get_atr may return, in 1/AtrDen (0: no ATR yet).
AtrValues == {0, 120}
\* Realised P&L a closing position update may carry.
PnlValues == {-14, 2}
\* Unrealised P&L the position list may carry for the open positions together.
UpnlValues == {-15, 0, 6}
\* Mark prices of the ticker stream.
MarkPrices == {80, 82, 84}

\* Raw candles: prices are multiples of PriceScale so that the divisions by 4
\* and the repeated divisions by 2 of the HA chain are exact.
PriceScale == 4 * (2 ^ 8)
ShapeU == [open |-> 2 * PriceScale, high |-> 7 * PriceScale, low |-> 2 * PriceScale, close |-> 6 * PriceScale]
ShapeD == [open |-> 6 * PriceScale, high |-> 6 * PriceScale, low |-> 1 * PriceScale, close |-> 2 * PriceScale]
Candle(ts, sh, conf) ==
    [timestamp |-> ts, open |-> sh.open, high |-> sh.high, low |-> sh.low,
     close |-> sh.close, confirmed |-> conf]

\* The candle the exchange streams for window w in the in-order specifications.
ShapeOf(w) == IF w % 2 = 1 THEN ShapeU ELSE ShapeD

Max2(a, b) == IF a >= b THEN a ELSE b
Min2(a, b) == IF a <= b THEN a ELSE b

\* ------------------------------------------------------------- variables

VARIABLES
    proc,         \* "down" | "running" | "refused": the process and Bot.start
    dry_run,      \* config.execution.dry_run
    max_fill_retries, \* config.execution.max_fill_retries
    db_kill,      \* bot_state row kill_switch_triggered = "true"
    db_trades,    \* the trades table: a sequence of rows, the id is the index
    slots,        \* the slots table and its in-memory mirror
    mem,          \* the Trade objects of this process, by id
    active,       \* RiskManager._active_trades: the ids, in insertion order
    coins,        \* CoinSelector._coins
    cooldowns,    \* SignalEngine._cooldowns: symbol -> cooldown_until (0: none)
    timers,       \* the sleeping _cooldown_timer tasks
    now,          \* the clock
    flip_acted,   \* SignalEngine._flip_acted_this_window (-1: no entry)
    live_4h,      \* SignalEngine._live_4h_candle
    prev_ha,      \* HeikenAshiEngine._prev_ha
    ha_series,    \* HeikenAshiEngine._ha_series
    kl_w,         \* exchange: the current 4h window of each symbol
    boots,        \* starts of the process so far
    kl_msgs,      \* 4h klines delivered so far (out-of-order specification)
    pub,          \* the public websocket task: where its handler is suspended
    priv,         \* the private websocket task
    ks,           \* the kill switch task and its flags
    ex_pos,       \* exchange: position size per symbol
    ex_orders,    \* exchange: the entry orders, the order id is the index
    ex_sl,        \* exchange: the stop-loss attached to each position
    pos_msgs,     \* position updates with size 0 in flight on the private stream
    obs           \* observations of the runs, read by the properties only

vars == <<proc, dry_run, max_fill_retries, db_kill, db_trades, slots, mem, active, coins, cooldowns,
          timers, now, flip_acted, live_4h, prev_ha, ha_series, kl_w, kl_msgs, pub,
          priv, ks, ex_pos, ex_orders, ex_sl, pos_msgs, obs, boots>>

\* --------------------------------------------------------------- entities

NoHA == [timestamp |-> -1, ha_open |-> 0, ha_close |-> 0, ha_high |-> 0, ha_low |-> 0, set |-> FALSE]
NoCandle == [timestamp |-> -1, open |-> 0, high |-> 0, low |-> 0, close |-> 0, confirmed |-> FALSE]

\* models.Trade; 0 stands for a None price, quantity, order id or P&L.
NewTrade(slot_id, symbol, side) ==
    [slot_id |-> slot_id, symbol |-> symbol, side |-> side,
     entry_price |-> 0, qty |-> 0, order_id |-> 0,
     current_sl_price |-> 0, initial_sl_price |-> 0, tp_levels |-> <<>>,
     highest_tp_reached |-> 0, atr_value |-> 0, status |-> "PENDING",
     pnl |-> 0, fees |-> 0, exit_reason |-> None, fill_attempts |-> 0]

NoTrade == [NewTrade(0, None, None) EXCEPT !.status = "NONE"]

\* models.Slot; a slot row that does not exist yet has state "NONE".
NoSlot == [balance |-> 0, state |-> "NONE", current_symbol |-> None,
           current_trade_id |-> 0, total_trades |-> 0, total_pnl |-> 0]
NewSlot == [NoSlot EXCEPT !.balance = InitialBalance, !.state = "AVAILABLE"]

NoCoin == [tracked |-> FALSE, in_active_trade |-> FALSE]

IdlePub == [pc |-> "idle", symbol |-> None, tid |-> 0, slot |-> 0, size |-> 0,
            attempt |-> 0, price |-> 0, qty |-> 0, sl |-> 0, atr |-> 0,
            mark |-> 0, rest |-> <<>>]
IdlePriv == [pc |-> "idle", symbol |-> None]
IdleKs == [pc |-> "idle", triggered |-> FALSE, todo |-> {}]
\* What the properties remember of the current process lifetime: how often signal
\* processing started per (symbol, window), how often the shutdown was entered,
\* the total it sampled, the equity the exchange held then, the trades OPEN then;
\* and, kept over restarts, the trades whose last trailing update the exchange
\* did not accept, the trades that had an update refused by the guard, the
\* fee each execution message delivered and the last stop the exchange accepted
\* on a call made for each trade.
NoObs == [starts |-> [s \in Symbols |-> [w \in 0..(MaxWindow + 1) |-> 0]],
          ks_runs |-> 0, ks_total |-> 0, ks_equity |-> 0, ks_open |-> {},
          sl_fail |-> {}, sl_refused |-> {},
          exec_fees |-> [o \in 0..(MaxTrades * MaxFillRetries) |-> 0],
          sl_acked |-> [id \in 1..MaxTrades |-> 0]]

ActiveStatuses == {"PENDING", "FILLING", "OPEN"}

TradeIds == 1..MaxTrades

\* ------------------------------------------------------------ Heiken Ashi

IsBullish(ha) == ha.ha_close > ha.ha_open
IsBearish(ha) == ha.ha_close < ha.ha_open

\* HeikenAshiEngine._calc_single
CalcSingle(candle, prev) ==
    LET ha_close == (candle.open + candle.high + candle.low + candle.close) \div 4
        ha_open == IF ~prev.set THEN (candle.open + candle.close) \div 2
                   ELSE (prev.ha_open + prev.ha_close) \div 2
    IN [timestamp |-> candle.timestamp, ha_open |-> ha_open, ha_close |-> ha_close,
        ha_high |-> Max2(candle.high, Max2(ha_open, ha_close)),
        ha_low |-> Min2(candle.low, Min2(ha_open, ha_close)), set |-> TRUE]

\* HeikenAshiEngine._detect_flip: the side of the signal, or None
DetectFlip(prev, curr) ==
    IF IsBearish(prev) /\ IsBullish(curr) THEN "LONG"
    ELSE IF IsBullish(prev) /\ IsBearish(curr) THEN "SHORT"
    ELSE None

RECURSIVE BuildSeries(_, _)
\* the loop of build_from_history: the HA candles of `candles` chained on `prev`
BuildSeries(candles, prev) ==
    IF candles = <<>> THEN <<>>
    ELSE LET ha == CalcSingle(Head(candles), prev)
         IN <<ha>> \o BuildSeries(Tail(candles), ha)

Last(s) == s[Len(s)]
LastN(s, n) == IF Len(s) <= n THEN s ELSE SubSeq(s, Len(s) - n + 1, Len(s))

\* HeikenAshiEngine.build_from_history: <<series, prev>> of one symbol
BuildFromHistory(candles, old_series, old_prev) ==
    IF candles = <<>> THEN <<old_series, old_prev>>
    ELSE LET s == BuildSeries(candles, NoHA) IN <<s, Last(s)>>

\* HeikenAshiEngine.update: <<series, prev, signal side>>
HaUpdate(series, prev, candle) ==
    LET new_ha == CalcSingle(candle, prev)
    IN <<LastN(Append(series, new_ha), HaSeriesCap), new_ha,
         IF prev.set THEN DetectFlip(prev, new_ha) ELSE None>>

\* HeikenAshiEngine.calc_live: the live HA candle chained on the stored
\* previous confirmed HA, and the flip against it; it stores nothing.
CalcLive(prev, candle) ==
    LET live_ha == CalcSingle(candle, prev)
    IN <<live_ha, IF prev.set THEN DetectFlip(prev, live_ha) ELSE None>>

\* A calc_live that stores its candle the way update does
CalcLiveStoring(series, prev, candle) ==
    <<HaUpdate(series, prev, candle)[1], HaUpdate(series, prev, candle)[2]>>

\* HeikenAshiEngine.calc_live: <<series, prev>> it leaves stored for the symbol
CalcLiveState(series, prev, candle) == <<series, prev>>

\* The confirmed 4h history the exchange serves once window w is current: the
\* closed windows, the oldest of them window -1.
RECURSIVE History(_)
History(w) ==
    IF w < 0 THEN <<>>
    ELSE Append(History(w - 1), Candle(w - 1, ShapeOf(w - 1), TRUE))

\* ------------------------------------------------------------ SlotManager

\* Database.initialize_slots: rows are created only where none exists
InitializeSlots(sl) == [i \in Slots |-> IF sl[i].state = "NONE" THEN NewSlot ELSE sl[i]]

\* SlotManager.get_available_slot: the lowest available id, 0 if none
GetAvailableSlot(sl) ==
    LET av == {i \in Slots : sl[i].state = "AVAILABLE"}
    IN IF av = {} THEN 0 ELSE CHOOSE i \in av : \A j \in av : i <= j

\* SlotManager.assign_slot
AssignSlot(sl, i, symbol, tid) ==
    IF sl[i].state # "AVAILABLE" THEN sl
    ELSE [sl EXCEPT ![i] = [@ EXCEPT !.state = "ASSIGNED", !.current_symbol = symbol,
                                     !.current_trade_id = tid]]

\* SlotManager.mark_in_trade
MarkInTrade(sl, i) == [sl EXCEPT ![i] = [@ EXCEPT !.state = "IN_TRADE"]]

\* SlotManager.complete_trade that books the result on the balance only
CompleteTradeBalanceOnly(sl, i, trade) ==
    LET net_pnl == trade.pnl - trade.fees
        new_balance == sl[i].balance + net_pnl
    IN [sl EXCEPT ![i] = [balance |-> new_balance,
                          state |-> IF new_balance < MinBalance THEN "FROZEN" ELSE "COOLDOWN",
                          current_symbol |-> None, current_trade_id |-> 0,
                          total_trades |-> @.total_trades + 1,
                          total_pnl |-> @.total_pnl]]

\* SlotManager.complete_trade freezing a slot whose balance is at the minimum
CompleteTradeFreezeAtMin(sl, i, trade) ==
    LET net_pnl == trade.pnl - trade.fees
        new_balance == sl[i].balance + net_pnl
    IN [sl EXCEPT ![i] = [balance |-> new_balance,
                          state |-> IF new_balance <= MinBalance THEN "FROZEN" ELSE "COOLDOWN",
                          current_symbol |-> None, current_trade_id |-> 0,
                          total_trades |-> @.total_trades + 1,
                          total_pnl |-> @.total_pnl + net_pnl]]

\* SlotManager.complete_trade
CompleteTrade(sl, i, trade) ==
    LET net_pnl == trade.pnl - trade.fees
        new_balance == sl[i].balance + net_pnl
    IN [sl EXCEPT ![i] = [balance |-> new_balance,
                          state |-> IF new_balance < MinBalance THEN "FROZEN" ELSE "COOLDOWN",
                          current_symbol |-> None, current_trade_id |-> 0,
                          total_trades |-> @.total_trades + 1,
                          total_pnl |-> @.total_pnl + net_pnl]]

\* SlotManager.release_from_cooldown
ReleaseFromCooldown(sl, i) ==
    IF sl[i].state = "COOLDOWN" THEN [sl EXCEPT ![i] = [@ EXCEPT !.state = "AVAILABLE"]]
    ELSE sl

\* SlotManager.release_slot
ReleaseSlot(sl, i) ==
    [sl EXCEPT ![i] = [@ EXCEPT !.state = "AVAILABLE", !.current_symbol = None,
                               !.current_trade_id = 0]]

RECURSIVE SumBalances(_, _)
SumBalances(sl, n) == IF n = 0 THEN 0 ELSE sl[n].balance + SumBalances(sl, n - 1)

\* SlotManager.get_total_balance
GetTotalBalance(sl) == SumBalances(sl, NumSlots)

\* SlotManager.get_total_balance_with_positions
GetTotalBalanceWithPositions(sl, unrealized_pnl) == GetTotalBalance(sl) + unrealized_pnl

\* SlotManager.calculate_position_size
CalculatePositionSize(sl, i) == sl[i].balance * Leverage

\* ----------------------------------------------------------- CoinSelector

\* CoinSelector.is_in_trade
IsInTrade(cs, symbol) == cs[symbol].tracked /\ cs[symbol].in_active_trade

\* CoinSelector.set_in_trade
SetInTrade(cs, symbol, flag) ==
    IF cs[symbol].tracked THEN [cs EXCEPT ![symbol].in_active_trade = flag] ELSE cs

\* CoinSelector.refresh: the new universe keeps the flag of the symbols it already had
RefreshCoins(cs, universe) ==
    [s \in Symbols |->
        IF s \in universe
        THEN [tracked |-> TRUE, in_active_trade |-> cs[s].tracked /\ cs[s].in_active_trade]
        ELSE NoCoin]

\* ---------------------------------------------------------- OrderExecutor

FloorDiv(a, b) == a \div b
CeilDiv(a, b) == (a + b - 1) \div b

NoBook == [bid |-> 0, ask |-> 0]
Books == {NoBook} \cup {[bid |-> p, ask |-> p + CoinSpec.tick_size] : p \in BookPrices}

\* OrderExecutor._get_entry_price: best bid for a buy, best ask for a sell, 0 for None
GetEntryPrice(side, book) == IF side = "LONG" THEN book.bid ELSE book.ask

\* OrderExecutor._calculate_qty, in lot steps; 0 for None
CalculateQty(notional, price) ==
    LET raw == FloorDiv(notional * CoinSpec.qty_den, price)
        qty == FloorDiv(raw, CoinSpec.qty_step) * CoinSpec.qty_step
    IN IF qty < CoinSpec.min_qty THEN 0 ELSE qty

\* OrderExecutor._round_price
RoundPrice(price, side) ==
    IF side = "LONG" THEN FloorDiv(price, CoinSpec.tick_size) * CoinSpec.tick_size
    ELSE CeilDiv(price, CoinSpec.tick_size) * CoinSpec.tick_size

\* The time in force with one maker-only attempt fewer
TimeInForceTakerEarly(attempt) == IF attempt < PostOnlyRetries THEN "PostOnly" ELSE "GTC"

\* The time in force of attempt n of execute_entry
TimeInForce(attempt) == IF attempt <= PostOnlyRetries THEN "PostOnly" ELSE "GTC"

\* ------------------------------------------------------------ RiskManager

\* RiskManager._round_sl_price of the rational num/den
RoundSlPrice(num, den, side) ==
    IF side = "LONG" THEN CeilDiv(num, den * CoinSpec.tick_size) * CoinSpec.tick_size
    ELSE FloorDiv(num, den * CoinSpec.tick_size) * CoinSpec.tick_size

\* RiskManager._round_tp_price of the rational num/den
RoundTpPrice(num, den, side) ==
    IF side = "LONG" THEN FloorDiv(num, den * CoinSpec.tick_size) * CoinSpec.tick_size
    ELSE CeilDiv(num, den * CoinSpec.tick_size) * CoinSpec.tick_size

\* setup_trade_risk: the initial stop of an entry
InitialSl(entry, side) ==
    IF side = "LONG" THEN RoundSlPrice(entry * (SlPctDen - SlPctNum), SlPctDen, side)
    ELSE RoundSlPrice(entry * (SlPctDen + SlPctNum), SlPctDen, side)

\* setup_trade_risk: the ATR used, in 1/AtrDen (fallback: one percent of the entry)
EffectiveAtr(entry, atr) == IF atr <= 0 THEN entry ELSE atr

\* setup_trade_risk: the ladder of TP levels
TpLadder(entry, side, atr) ==
    [n \in 1..TpLevels |->
        [level |-> n, hit |-> FALSE,
         price |-> IF side = "LONG"
                   THEN RoundTpPrice(entry * AtrDen + n * atr, AtrDen, side)
                   ELSE RoundTpPrice(entry * AtrDen - n * atr, AtrDen, side)]]

\* RiskManager._get_tp_price; 0 for None
GetTpPrice(trade, level) ==
    IF level \in DOMAIN trade.tp_levels THEN trade.tp_levels[level].price ELSE 0

\* RiskManager._update_sl: the guard that refuses a stop that is not better
SlRefusedOnlyBehind(trade, new_sl) ==
    /\ trade.current_sl_price # 0
    /\ IF trade.side = "LONG" THEN new_sl < trade.current_sl_price
       ELSE new_sl > trade.current_sl_price

SlRefused(trade, new_sl) ==
    /\ trade.current_sl_price # 0
    /\ IF trade.side = "LONG" THEN new_sl <= trade.current_sl_price
       ELSE new_sl >= trade.current_sl_price

\* RiskManager._check_tp_levels: the levels the price has reached
TpReached(trade, price, tp) ==
    IF trade.side = "LONG" THEN price >= tp.price ELSE price <= tp.price

\* RiskManager.handle_trade_closed, on the Trade object
ClosedTrade(trade, exit_reason, pnl, fees) ==
    [trade EXCEPT !.status = "CLOSED", !.exit_reason = exit_reason, !.pnl = pnl, !.fees = fees]

\* A lookup that returns the last trade of the symbol whatever its status and
\* whether or not the risk manager still watches it
GetTradeBySymbolAnyStatus(ids, m, symbol) ==
    IF \E id \in DOMAIN m : m[id].symbol = symbol
    THEN CHOOSE id \in DOMAIN m : /\ m[id].symbol = symbol
                                   /\ \A other \in DOMAIN m : m[other].symbol = symbol => other <= id
    ELSE 0

\* RiskManager.get_active_trade_by_symbol: the first OPEN one in insertion order; 0 for None
RECURSIVE FirstOpen(_, _, _)
FirstOpen(ids, m, symbol) ==
    IF ids = <<>> THEN 0
    ELSE IF m[Head(ids)].symbol = symbol /\ m[Head(ids)].status = "OPEN" THEN Head(ids)
    ELSE FirstOpen(Tail(ids), m, symbol)

GetActiveTradeBySymbol(ids, m, symbol) == FirstOpen(ids, m, symbol)

\* dict.pop on _active_trades
RECURSIVE Without(_, _)
Without(ids, id) ==
    IF ids = <<>> THEN <<>>
    ELSE IF Head(ids) = id THEN Without(Tail(ids), id)
    ELSE <<Head(ids)>> \o Without(Tail(ids), id)

\* dict[key] = value on _active_trades
WithId(ids, id) == IF \E k \in DOMAIN ids : ids[k] = id THEN ids ELSE Append(ids, id)

\* Database.get_open_trades filtered by load_active_trades: the OPEN rows, by id
RECURSIVE OpenRows(_, _)
OpenRows(rows, n) ==
    IF n = 0 THEN <<>>
    ELSE IF rows[n].status = "OPEN" THEN Append(OpenRows(rows, n - 1), n)
    ELSE OpenRows(rows, n - 1)

\* ------------------------------------------------------ process lifecycle

InitCommon ==
    /\ proc = "down"
    /\ db_kill = FALSE
    /\ db_trades = <<>>
    /\ slots = [i \in Slots |-> NoSlot]
    /\ mem = [id \in TradeIds |-> NoTrade]
    /\ active = <<>>
    /\ coins = [s \in Symbols |-> NoCoin]
    /\ cooldowns = [s \in Symbols |-> 0]
    /\ timers = {}
    /\ now = 0
    /\ flip_acted = [s \in Symbols |-> -1]
    /\ live_4h = [s \in Symbols |-> NoCandle]
    /\ prev_ha = [s \in Symbols |-> NoHA]
    /\ ha_series = [s \in Symbols |-> <<>>]
    /\ kl_msgs = 0
    /\ boots = 0
    /\ pub = IdlePub
    /\ priv = IdlePriv
    /\ ks = IdleKs
    /\ ex_pos = [s \in Symbols |-> 0]
    /\ ex_orders = <<>>
    /\ ex_sl = [s \in Symbols |-> 0]
    /\ pos_msgs = {}
    /\ obs = NoObs

\* Live trading (execution.dry_run switched off in the configuration), the
\* exchange in its window 1.
Init ==
    /\ InitCommon
    /\ dry_run = FALSE
    /\ max_fill_retries = 1
    /\ kl_w = [s \in Symbols |-> 1]

BootBlockedNever(kill_switch_triggered) == FALSE

\* Bot.start step 2: the persisted flag read back at startup
BootBlocked(kill_switch_triggered) == kill_switch_triggered = TRUE

\* Bot.start with the kill flag set: it returns after the flag check.
BootRefused ==
    /\ proc = "down"
    /\ BootBlocked(db_kill)
    /\ proc' = "refused"
    /\ UNCHANGED <<dry_run, max_fill_retries, db_kill, db_trades, slots, mem, active, coins, cooldowns,
                   timers, now, flip_acted, live_4h, prev_ha, ha_series, kl_w, kl_msgs,
                   pub, priv, ks, ex_pos, ex_orders, ex_sl, pos_msgs, obs, boots>>

\* Bot.start: slots, recovery of the OPEN trades, coin selection, HA history of
\* every selected symbol, handlers and subscriptions.
BootRun(universe) ==
    /\ proc = "down"
    /\ ~BootBlocked(db_kill)
    /\ boots < MaxBoots
    /\ boots' = boots + 1
    /\ proc' = "running"
    /\ slots' = InitializeSlots(slots)
    /\ active' = OpenRows(db_trades, Len(db_trades))
    /\ mem' = [id \in TradeIds |->
                 IF id <= Len(db_trades) /\ db_trades[id].status = "OPEN"
                 THEN db_trades[id] ELSE NoTrade]
    /\ coins' = RefreshCoins(coins, universe)
    /\ ha_series' = [s \in Symbols |->
                       IF s \in universe
                       THEN BuildFromHistory(History(kl_w[s]), ha_series[s], prev_ha[s])[1]
                       ELSE ha_series[s]]
    /\ prev_ha' = [s \in Symbols |->
                     IF s \in universe
                     THEN BuildFromHistory(History(kl_w[s]), ha_series[s], prev_ha[s])[2]
                     ELSE prev_ha[s]]
    /\ UNCHANGED <<dry_run, max_fill_retries, db_kill, db_trades, cooldowns, timers, now, flip_acted,
                   live_4h, kl_w, kl_msgs, pub, priv, ks, ex_pos, ex_orders, ex_sl,
                   pos_msgs, obs>>

Boot == BootRefused \/ \E universe \in Universes : BootRun(universe)

\* The process dies (or is stopped): everything in memory is gone, the tasks,
\* the timers and the messages in flight with it; the database and the
\* exchange keep their state.
Crash ==
    /\ proc # "down"
    /\ proc' = "down"
    /\ mem' = [id \in TradeIds |-> NoTrade]
    /\ active' = <<>>
    /\ coins' = [s \in Symbols |-> NoCoin]
    /\ cooldowns' = [s \in Symbols |-> 0]
    /\ timers' = {}
    /\ flip_acted' = [s \in Symbols |-> -1]
    /\ live_4h' = [s \in Symbols |-> NoCandle]
    /\ prev_ha' = [s \in Symbols |-> NoHA]
    /\ ha_series' = [s \in Symbols |-> <<>>]
    /\ pub' = IdlePub
    /\ priv' = IdlePriv
    /\ ks' = IdleKs
    /\ pos_msgs' = {}
    /\ obs' = [NoObs EXCEPT !.sl_fail = obs.sl_fail, !.sl_refused = obs.sl_refused,
                            !.exec_fees = obs.exec_fees, !.sl_acked = obs.sl_acked]
    /\ UNCHANGED <<dry_run, max_fill_retries, db_kill, db_trades, slots, now, kl_w, kl_msgs,
                   ex_pos, ex_orders, ex_sl, boots>>

\* The operator clears the persisted kill flag by hand.
OperatorClear ==
    /\ db_kill
    /\ db_kill' = FALSE
    /\ UNCHANGED <<proc, dry_run, max_fill_retries, db_trades, slots, mem, active, coins, cooldowns,
                   timers, now, flip_acted, live_4h, prev_ha, ha_series, kl_w, kl_msgs,
                   pub, priv, ks, ex_pos, ex_orders, ex_sl, pos_msgs, obs, boots>>

\* One cooldown period passes.
Tick ==
    /\ now < MaxTime * CooldownMinutes
    /\ now' = now + CooldownMinutes
    /\ UNCHANGED <<proc, dry_run, max_fill_retries, db_kill, db_trades, slots, mem, active, coins,
                   cooldowns, timers, flip_acted, live_4h, prev_ha, ha_series, kl_w,
                   kl_msgs, pub, priv, ks, ex_pos, ex_orders, ex_sl, pos_msgs, obs, boots>>

\* ------------------------------------------------------------ 4h klines

\* SignalEngine.on_kline_240 for one kline of `symbol`
HandleKline240(symbol, candle) ==
    /\ proc = "running"
    /\ pub.pc = "idle"
    /\ IF candle.confirmed
       THEN /\ ha_series' = [ha_series EXCEPT ![symbol] = HaUpdate(@, prev_ha[symbol], candle)[1]]
            /\ prev_ha' = [prev_ha EXCEPT ![symbol] = HaUpdate(ha_series[symbol], @, candle)[2]]
            /\ flip_acted' = [flip_acted EXCEPT ![symbol] = -1]
            /\ live_4h' = [live_4h EXCEPT ![symbol] = NoCandle]
       ELSE /\ live_4h' = [live_4h EXCEPT ![symbol] = candle]
            /\ UNCHANGED <<ha_series, prev_ha, flip_acted>>
    /\ UNCHANGED <<proc, dry_run, max_fill_retries, db_kill, db_trades, slots, mem, active, coins,
                   cooldowns, timers, now, pub, priv, ks, ex_pos, ex_orders, ex_sl,
                   pos_msgs, obs, boots>>

\* The exchange streams the live candle of the current window of a symbol.
OnKline240Live(symbol) ==
    /\ coins[symbol].tracked
    /\ kl_w[symbol] <= MaxWindow
    /\ live_4h[symbol] = NoCandle
    /\ HandleKline240(symbol, Candle(kl_w[symbol], ShapeOf(kl_w[symbol]), FALSE))
    /\ UNCHANGED <<kl_w, kl_msgs>>

\* The exchange closes the current window of a symbol and streams it confirmed.
OnKline240Confirmed(symbol) ==
    /\ coins[symbol].tracked
    /\ kl_w[symbol] <= MaxWindow
    /\ HandleKline240(symbol, Candle(kl_w[symbol], ShapeOf(kl_w[symbol]), TRUE))
    /\ kl_w' = [kl_w EXCEPT ![symbol] = @ + 1]
    /\ UNCHANGED kl_msgs

\* A 4h kline of any window reaches the handler: late, repeated or ahead of the
\* exchange's own order, as a reconnecting or replaying stream delivers them.
DeliverKline240(symbol, w, confirmed) ==
    /\ coins[symbol].tracked
    /\ kl_msgs < MaxKlineMsgs
    /\ HandleKline240(symbol, Candle(w, ShapeOf(w), confirmed))
    /\ kl_msgs' = kl_msgs + 1
    /\ UNCHANGED kl_w

\* ------------------------------------------------- 5m klines and signals

IsInCooldownNever(cd, symbol, t) == FALSE

\* SignalEngine._is_in_cooldown
IsInCooldown(cd, symbol, t) == cd[symbol] # 0 /\ t < cd[symbol]

\* SignalEngine._set_cooldown
SetCooldown(cd, symbol, t) == [cd EXCEPT ![symbol] = t + CooldownMinutes]

\* The four gates of _process_signal: does the signal go on to a trade?
GatesPass(symbol) ==
    /\ ~IsInCooldown(cooldowns, symbol, now)
    /\ ~IsInTrade(coins, symbol)
    /\ GetAvailableSlot(slots) # 0
    /\ coins[symbol].tracked

\* The signal on_kline_5 computes for a symbol from the cached live candle
LiveSignal(symbol) ==
    IF live_4h[symbol] = NoCandle THEN None
    ELSE CalcLive(prev_ha[symbol], live_4h[symbol])[2]

\* A receive loop that hands a message to its handler without waiting for the
\* handler of the message before it
PublicTaskFreeAlways(p) == TRUE

\* The public stream's receive loop awaits the handler of one message before it
\* reads the next, and _process_signal runs under _signal_lock: a 5m kline is
\* taken up only when no handler of the public task is under way.
PublicTaskFree(p) == p.pc = "idle"

CountStart(o, symbol, w) ==
    [o EXCEPT !.starts[symbol][w] = IF @ < 2 THEN @ + 1 ELSE @]

\* on_kline_5 with a _process_signal that goes live whatever execution.dry_run says
OnKline5IgnoringDryRun(symbol) ==
    /\ proc = "running"
    /\ PublicTaskFree(pub)
    /\ LiveSignal(symbol) # None
    /\ flip_acted[symbol] # live_4h[symbol].timestamp
    /\ flip_acted' = [flip_acted EXCEPT ![symbol] = live_4h[symbol].timestamp]
    /\ obs' = CountStart(obs, symbol, live_4h[symbol].timestamp)
    /\ IF ~GatesPass(symbol)
       THEN UNCHANGED <<db_trades, slots, mem, coins, pub>>
       ELSE IF dry_run /\ FALSE
       THEN /\ pub' = [IdlePub EXCEPT !.pc = "dry_notify", !.symbol = symbol]
            /\ UNCHANGED <<db_trades, slots, mem, coins>>
       ELSE LET slot == GetAvailableSlot(slots)
                tid == Len(db_trades) + 1
                trade == NewTrade(slot, symbol, LiveSignal(symbol))
            IN /\ tid <= MaxTrades
               /\ db_trades' = Append(db_trades, trade)
               /\ mem' = [mem EXCEPT ![tid] = [trade EXCEPT !.status = "FILLING",
                                                            !.fill_attempts = 1]]
               /\ slots' = AssignSlot(slots, slot, symbol, tid)
               /\ coins' = SetInTrade(coins, symbol, TRUE)
               /\ pub' = [IdlePub EXCEPT !.pc = "book", !.symbol = symbol, !.tid = tid,
                                         !.slot = slot, !.attempt = 1,
                                         !.size = CalculatePositionSize(slots, slot)]
    /\ ha_series' = [ha_series EXCEPT ![symbol] =
                        CalcLiveState(@, prev_ha[symbol], live_4h[symbol])[1]]
    /\ prev_ha' = [prev_ha EXCEPT ![symbol] =
                        CalcLiveState(ha_series[symbol], @, live_4h[symbol])[2]]
    /\ UNCHANGED <<proc, dry_run, max_fill_retries, db_kill, active, cooldowns, timers, now, live_4h,
                   kl_w, kl_msgs, priv, ks, ex_pos, ex_orders, ex_sl, pos_msgs, boots>>

\* SignalEngine.on_kline_5 for a confirmed 5m kline of `symbol`, with
\* _process_signal up to the order book query of the first entry attempt
\* (set_leverage, whose result and exceptions are ignored, changes nothing the
\* bot reads and is passed over).
OnKline5(symbol) ==
    /\ proc = "running"
    /\ PublicTaskFree(pub)
    /\ LiveSignal(symbol) # None
    /\ flip_acted[symbol] # live_4h[symbol].timestamp
    /\ flip_acted' = [flip_acted EXCEPT ![symbol] = live_4h[symbol].timestamp]
    /\ obs' = CountStart(obs, symbol, live_4h[symbol].timestamp)
    /\ IF ~GatesPass(symbol)
       THEN UNCHANGED <<db_trades, slots, mem, coins, pub>>
       ELSE IF dry_run
       THEN /\ pub' = [IdlePub EXCEPT !.pc = "dry_notify", !.symbol = symbol]
            /\ UNCHANGED <<db_trades, slots, mem, coins>>
       ELSE LET slot == GetAvailableSlot(slots)
                tid == Len(db_trades) + 1
                trade == NewTrade(slot, symbol, LiveSignal(symbol))
            IN /\ tid <= MaxTrades
               /\ db_trades' = Append(db_trades, trade)
               /\ mem' = [mem EXCEPT ![tid] = [trade EXCEPT !.status = "FILLING",
                                                            !.fill_attempts = 1]]
               /\ slots' = AssignSlot(slots, slot, symbol, tid)
               /\ coins' = SetInTrade(coins, symbol, TRUE)
               /\ pub' = [IdlePub EXCEPT !.pc = "book", !.symbol = symbol, !.tid = tid,
                                         !.slot = slot, !.attempt = 1,
                                         !.size = CalculatePositionSize(slots, slot)]
    /\ ha_series' = [ha_series EXCEPT ![symbol] =
                        CalcLiveState(@, prev_ha[symbol], live_4h[symbol])[1]]
    /\ prev_ha' = [prev_ha EXCEPT ![symbol] =
                        CalcLiveState(ha_series[symbol], @, live_4h[symbol])[2]]
    /\ UNCHANGED <<proc, dry_run, max_fill_retries, db_kill, active, cooldowns, timers, now, live_4h,
                   kl_w, kl_msgs, priv, ks, ex_pos, ex_orders, ex_sl, pos_msgs, boots>>

\* _process_signal in dry-run mode: the notification returns.
DryNotifyReturn ==
    /\ pub.pc = "dry_notify"
    /\ pub' = IdlePub
    /\ UNCHANGED <<proc, dry_run, max_fill_retries, db_kill, db_trades, slots, mem, active, coins,
                   cooldowns, timers, now, flip_acted, live_4h, prev_ha, ha_series,
                   kl_w, kl_msgs, priv, ks, ex_pos, ex_orders, ex_sl, pos_msgs, obs, boots>>

\* _process_signal after execute_entry returned False
EntryFailed ==
    /\ slots' = ReleaseSlot(slots, pub.slot)
    /\ coins' = SetInTrade(coins, pub.symbol, FALSE)
    /\ mem' = [mem EXCEPT ![pub.tid] = [@ EXCEPT !.status = "CANCELLED",
                                                 !.exit_reason = "FILL_FAILED"]]
    /\ db_trades' = [db_trades EXCEPT ![pub.tid] = mem'[pub.tid]]
    /\ pub' = IdlePub

\* The attempt loop running one iteration past max_fill_retries
NextAttemptOneMore ==
    IF pub.attempt <= max_fill_retries
    THEN /\ pub' = [pub EXCEPT !.pc = "book", !.attempt = @ + 1, !.price = 0, !.qty = 0]
         /\ mem' = [mem EXCEPT ![pub.tid] = [@ EXCEPT !.status = "FILLING",
                                                      !.fill_attempts = pub.attempt + 1]]
         /\ UNCHANGED <<slots, coins, db_trades>>
    ELSE EntryFailed

\* execute_entry: the next iteration of the attempt loop, or its exhaustion
NextAttempt ==
    IF pub.attempt < max_fill_retries
    THEN /\ pub' = [pub EXCEPT !.pc = "book", !.attempt = @ + 1, !.price = 0, !.qty = 0]
         /\ mem' = [mem EXCEPT ![pub.tid] = [@ EXCEPT !.status = "FILLING",
                                                      !.fill_attempts = pub.attempt + 1]]
         /\ UNCHANGED <<slots, coins, db_trades>>
    ELSE EntryFailed

\* _get_entry_price returns: no price, no quantity, or the order goes out.
BookReturn(book) ==
    /\ pub.pc = "book"
    /\ LET side == mem[pub.tid].side
           price == GetEntryPrice(side, book)
           qty == CalculateQty(pub.size, price)
       IN IF book = NoBook THEN NextAttempt
          ELSE IF qty <= 0 THEN EntryFailed
          ELSE /\ pub' = [pub EXCEPT !.pc = "place", !.price = RoundPrice(price, side),
                                     !.qty = qty]
               /\ UNCHANGED <<slots, coins, db_trades, mem>>
    /\ UNCHANGED <<proc, dry_run, max_fill_retries, db_kill, active, cooldowns, timers, now, flip_acted,
                   live_4h, prev_ha, ha_series, kl_w, kl_msgs, priv, ks, ex_pos,
                   ex_orders, ex_sl, pos_msgs, obs, boots>>

\* place_order returns with a ret code.
PlaceReturn(ret_code) ==
    /\ pub.pc = "place"
    /\ IF ret_code = PostOnlyRejectA \/ ret_code = PostOnlyRejectB
       THEN /\ TimeInForce(pub.attempt) = "PostOnly"
            /\ NextAttempt
            /\ UNCHANGED ex_orders
       ELSE IF ret_code # 0
       THEN /\ NextAttempt
            /\ UNCHANGED ex_orders
       ELSE /\ ex_orders' = Append(ex_orders,
                    [symbol |-> pub.symbol, qty |-> pub.qty, status |-> "New",
                     tid |-> pub.tid, tif |-> TimeInForce(pub.attempt)])
            /\ mem' = [mem EXCEPT ![pub.tid].order_id = Len(ex_orders) + 1]
            /\ pub' = [pub EXCEPT !.pc = "poll"]
            /\ UNCHANGED <<slots, coins, db_trades>>
    /\ UNCHANGED <<proc, dry_run, max_fill_retries, db_kill, active, cooldowns, timers, now, flip_acted,
                   live_4h, prev_ha, ha_series, kl_w, kl_msgs, priv, ks, ex_pos,
                   ex_sl, pos_msgs, obs, boots>>

\* _wait_for_fill returns True: the poll showed the order Filled, or did not
\* show it at all.  The trade is OPEN, the slot IN_TRADE, and setup_trade_risk
\* asks the exchange for the initial stop.
PollFilled(found, atr) ==
    /\ pub.pc = "poll"
    /\ LET st == ex_orders[mem[pub.tid].order_id].status
       IN IF found THEN st = "Filled" ELSE TRUE
    /\ mem' = [mem EXCEPT ![pub.tid] = [@ EXCEPT !.entry_price = pub.price,
                                                 !.qty = pub.qty, !.status = "OPEN"]]
    /\ slots' = MarkInTrade(slots, pub.slot)
    /\ db_trades' = [db_trades EXCEPT ![pub.tid] = mem'[pub.tid]]
    /\ pub' = [pub EXCEPT !.pc = "sl", !.sl = InitialSl(pub.price, mem[pub.tid].side),
                          !.atr = EffectiveAtr(pub.price, atr)]
    /\ UNCHANGED <<proc, dry_run, max_fill_retries, db_kill, active, coins, cooldowns, timers, now,
                   flip_acted, live_4h, prev_ha, ha_series, kl_w, kl_msgs, priv, ks,
                   ex_pos, ex_orders, ex_sl, pos_msgs, obs, boots>>

\* exchange: an open order is cancelled
CancelAt(orders, oid) ==
    IF orders[oid].status = "New" THEN [orders EXCEPT ![oid].status = "Cancelled"]
    ELSE orders

\* _wait_for_fill returns False (the poll showed the order cancelled, or the
\* deadline passed); execute_entry cancels the order, whatever the result,
\* and goes to its next attempt.
PollNotFilled(timeout) ==
    /\ pub.pc = "poll"
    /\ timeout \/ ex_orders[mem[pub.tid].order_id].status = "Cancelled"
    /\ ex_orders' = CancelAt(ex_orders, mem[pub.tid].order_id)
    /\ NextAttempt
    /\ UNCHANGED <<proc, dry_run, max_fill_retries, db_kill, active, cooldowns, timers, now, flip_acted,
                   live_4h, prev_ha, ha_series, kl_w, kl_msgs, priv, ks, ex_pos,
                   ex_sl, pos_msgs, obs, boots>>

\* exchange: a position shrinks by qty; a flat position loses its stop and
\* the private stream carries the update with size 0
ReducePosition(pos, symbol, qty) == [pos EXCEPT ![symbol] = Max2(0, @ - qty)]
StopAfter(sl, pos, symbol) == IF pos[symbol] = 0 THEN [sl EXCEPT ![symbol] = 0] ELSE sl
MsgsAfter(msgs, old_pos, pos, symbol) ==
    IF old_pos[symbol] > 0 /\ pos[symbol] = 0 THEN msgs \cup {symbol} ELSE msgs

\* setup_trade_risk: set_trading_stop returns.  The exchange takes a stop only
\* for an open position.  On success the trade joins the active set (the entry
\* notification that follows changes nothing and is passed over).
SlReturn(ok) ==
    /\ pub.pc = "sl"
    /\ IF ok
       THEN /\ ex_pos[pub.symbol] > 0
            /\ ex_sl' = [ex_sl EXCEPT ![pub.symbol] = pub.sl]
            /\ mem' = [mem EXCEPT ![pub.tid] =
                        [@ EXCEPT !.initial_sl_price = pub.sl, !.current_sl_price = pub.sl,
                                  !.tp_levels = TpLadder(pub.price, mem[pub.tid].side, pub.atr),
                                  !.atr_value = pub.atr, !.highest_tp_reached = 0]]
            /\ db_trades' = [db_trades EXCEPT ![pub.tid] = mem'[pub.tid]]
            /\ active' = WithId(active, pub.tid)
            /\ obs' = [obs EXCEPT !.sl_acked[pub.tid] = pub.sl]
            /\ pub' = IdlePub
       ELSE /\ pub' = [pub EXCEPT !.pc = "close"]
            /\ UNCHANGED <<ex_sl, mem, db_trades, active, obs>>
    /\ UNCHANGED <<proc, dry_run, max_fill_retries, db_kill, slots, coins, cooldowns, timers, now,
                   flip_acted, live_4h, prev_ha, ha_series, kl_w, kl_msgs, priv, ks,
                   ex_pos, ex_orders, pos_msgs, boots>>

\* _process_signal after the stop could not be placed: close_position_market
\* returns (done: the reduce-only market order went through), the slot is
\* released and the in-trade flag cleared.
CloseReturn(done) ==
    /\ pub.pc = "close"
    /\ ex_pos' = IF done THEN ReducePosition(ex_pos, pub.symbol, mem[pub.tid].qty) ELSE ex_pos
    /\ ex_sl' = StopAfter(ex_sl, ex_pos', pub.symbol)
    /\ pos_msgs' = MsgsAfter(pos_msgs, ex_pos, ex_pos', pub.symbol)
    /\ slots' = ReleaseSlot(slots, pub.slot)
    /\ coins' = SetInTrade(coins, pub.symbol, FALSE)
    /\ pub' = IdlePub
    /\ UNCHANGED <<proc, dry_run, max_fill_retries, db_kill, db_trades, mem, active, cooldowns, timers,
                   now, flip_acted, live_4h, prev_ha, ha_series, kl_w, kl_msgs, priv,
                   ks, ex_orders, obs, boots>>

\* A REST call of the public task raises (network error): the exception leaves
\* the handler and the dispatcher logs it.
PubRaise ==
    /\ pub.pc \in {"book", "place", "poll", "sl", "close", "trail"}
    /\ pub' = IdlePub
    /\ obs' = IF pub.pc = "trail" THEN [obs EXCEPT !.sl_fail = @ \cup {pub.tid}] ELSE obs
    /\ UNCHANGED <<proc, dry_run, max_fill_retries, db_kill, db_trades, slots, mem, active, coins,
                   cooldowns, timers, now, flip_acted, live_4h, prev_ha, ha_series,
                   kl_w, kl_msgs, priv, ks, ex_pos, ex_orders, ex_sl, pos_msgs, boots>>

\* ----------------------------------------------------------- the exchange

\* An open entry order fills.
ExFill(oid) ==
    /\ oid \in DOMAIN ex_orders
    /\ ex_orders[oid].status = "New"
    /\ ex_orders' = [ex_orders EXCEPT ![oid].status = "Filled"]
    /\ ex_pos' = [ex_pos EXCEPT ![ex_orders[oid].symbol] = @ + ex_orders[oid].qty]
    /\ UNCHANGED <<proc, dry_run, max_fill_retries, db_kill, db_trades, slots, mem, active, coins,
                   cooldowns, timers, now, flip_acted, live_4h, prev_ha, ha_series,
                   kl_w, kl_msgs, pub, priv, ks, ex_sl, pos_msgs, obs, boots>>

\* A position is closed on the exchange: its stop triggers, it is liquidated,
\* or it is closed by hand.
ExPositionClosed(symbol) ==
    /\ ex_pos[symbol] > 0
    /\ ex_pos' = [ex_pos EXCEPT ![symbol] = 0]
    /\ ex_sl' = [ex_sl EXCEPT ![symbol] = 0]
    /\ pos_msgs' = IF proc = "running" THEN pos_msgs \cup {symbol} ELSE pos_msgs
    /\ UNCHANGED <<proc, dry_run, max_fill_retries, db_kill, db_trades, slots, mem, active, coins,
                   cooldowns, timers, now, flip_acted, live_4h, prev_ha, ha_series,
                   kl_w, kl_msgs, pub, priv, ks, ex_orders, obs, boots>>

\* The private stream carries a position message of size 0 for a symbol that
\* holds no position: a repeated close message, or the message the exchange
\* sends when the position's settings change (set_leverage).
ExPositionResent(symbol) ==
    /\ proc = "running"
    /\ ex_pos[symbol] = 0
    /\ symbol \notin pos_msgs
    /\ pos_msgs' = pos_msgs \cup {symbol}
    /\ UNCHANGED <<proc, dry_run, max_fill_retries, db_kill, db_trades, slots, mem, active, coins,
                   cooldowns, timers, now, flip_acted, live_4h, prev_ha, ha_series,
                   kl_w, kl_msgs, pub, priv, ks, ex_pos, ex_orders, ex_sl, obs, boots>>

\* ------------------------------------------------------- position updates

\* The exit reason on_position_update gives a closed trade
ExitReasonOf(trade) == IF trade.highest_tp_reached >= 2 THEN "TRAILING_SL" ELSE "SL_HIT"

\* SignalEngine.on_position_update for a position of size 0, with
\* _handle_trade_closed up to its await of the exit notification.
OnPositionUpdate(symbol, pnl) ==
    /\ proc = "running"
    /\ priv.pc = "idle"
    /\ symbol \in pos_msgs
    /\ pos_msgs' = pos_msgs \ {symbol}
    /\ LET tid == GetActiveTradeBySymbol(active, mem, symbol)
       IN IF tid = 0
          THEN UNCHANGED <<mem, db_trades, active, slots, cooldowns, timers, priv>>
          ELSE LET closed == ClosedTrade(mem[tid], ExitReasonOf(mem[tid]), pnl, mem[tid].fees)
               IN /\ mem' = [mem EXCEPT ![tid] = closed]
                  /\ db_trades' = [db_trades EXCEPT ![tid] = closed]
                  /\ active' = Without(active, tid)
                  /\ slots' = CompleteTrade(slots, closed.slot_id, closed)
                  /\ cooldowns' = SetCooldown(cooldowns, symbol, now)
                  /\ timers' = timers \cup {[slot |-> closed.slot_id,
                                             due |-> now + CooldownMinutes]}
                  /\ priv' = [pc |-> "exit_notify", symbol |-> symbol]
    /\ UNCHANGED <<proc, dry_run, max_fill_retries, db_kill, coins, now, flip_acted, live_4h, prev_ha,
                   ha_series, kl_w, kl_msgs, pub, ks, ex_pos, ex_orders, ex_sl, obs, boots>>

\* _handle_trade_closed after send_trade_exit returned: the in-trade flag goes.
ExitNotifyReturn ==
    /\ priv.pc = "exit_notify"
    /\ coins' = SetInTrade(coins, priv.symbol, FALSE)
    /\ priv' = IdlePriv
    /\ UNCHANGED <<proc, dry_run, max_fill_retries, db_kill, db_trades, slots, mem, active, cooldowns,
                   timers, now, flip_acted, live_4h, prev_ha, ha_series, kl_w, kl_msgs,
                   pub, ks, ex_pos, ex_orders, ex_sl, pos_msgs, obs, boots>>

\* Database.get_trade_by_order_id: the row whose order_id column holds the id,
\* 0 for None.
GetTradeByOrderId(rows, order_id) ==
    IF \E id \in DOMAIN rows : rows[id].order_id = order_id
    THEN CHOOSE id \in DOMAIN rows : /\ rows[id].order_id = order_id
                                     /\ \A other \in DOMAIN rows :
                                            rows[other].order_id = order_id => id <= other
    ELSE 0

\* SignalEngine.on_execution for the execution of a filled entry order, read
\* from the private stream at most once per order: the trade is looked up in
\* the database by its order id, the fee is added to that copy and the copy is
\* written back.  The Trade object the risk manager holds is another object and
\* keeps its fees.  obs.exec_fees records what was delivered.
OnExecution(order_id, exec_fee) ==
    /\ proc = "running"
    /\ priv.pc = "idle"
    /\ order_id \in DOMAIN ex_orders
    /\ ex_orders[order_id].status = "Filled"
    /\ obs.exec_fees[order_id] = 0
    /\ LET tid == GetTradeByOrderId(db_trades, order_id)
       IN db_trades' = IF tid = 0 THEN db_trades
                       ELSE [db_trades EXCEPT ![tid].fees = @ + exec_fee]
    /\ obs' = [obs EXCEPT !.exec_fees[order_id] = exec_fee]
    /\ UNCHANGED <<proc, dry_run, max_fill_retries, db_kill, slots, mem, active, coins, cooldowns,
                   timers, now, flip_acted, live_4h, prev_ha, ha_series, kl_w, kl_msgs,
                   pub, priv, ks, ex_pos, ex_orders, ex_sl, pos_msgs, boots>>

\* SignalEngine._cooldown_timer wakes after its sleep.
CooldownTimer(timer) ==
    /\ timer \in timers
    /\ now >= timer.due
    /\ timers' = timers \ {timer}
    /\ slots' = ReleaseFromCooldown(slots, timer.slot)
    /\ UNCHANGED <<proc, dry_run, max_fill_retries, db_kill, db_trades, mem, active, coins, cooldowns,
                   now, flip_acted, live_4h, prev_ha, ha_series, kl_w, kl_msgs, pub,
                   priv, ks, ex_pos, ex_orders, ex_sl, pos_msgs, obs, boots>>

\* ------------------------------------------------------------ kill switch

AnyPosition == \E s \in Symbols : ex_pos[s] > 0

\* KillSwitch.start: the loop wakes and runs _check.  `listed` says whether
\* get_positions gave the list (it is empty on an API error, and an exception
\* is swallowed), upnl is the unrealised P&L the exchange holds.  Below the
\* threshold _execute_shutdown starts: flag in memory, flag in the database,
\* then the open orders query.
KsCheck(listed, upnl) ==
    /\ proc = "running"
    /\ ks.pc = "idle"
    /\ ~ks.triggered
    /\ (~AnyPosition) => upnl = 0
    /\ LET unrealized_pnl == IF listed THEN upnl ELSE 0
           total == GetTotalBalanceWithPositions(slots, unrealized_pnl)
       IN /\ total < KillSwitchThreshold
          /\ ks' = [ks EXCEPT !.pc = "orders", !.triggered = TRUE]
          /\ db_kill' = TRUE
          /\ obs' = [obs EXCEPT !.ks_runs = IF @ < 2 THEN @ + 1 ELSE @,
                                !.ks_total = total,
                                !.ks_equity = GetTotalBalance(slots) + upnl,
                                !.ks_open = {id \in TradeIds :
                                               /\ \E k \in DOMAIN active : active[k] = id
                                               /\ mem[id].status = "OPEN"}]
    /\ UNCHANGED <<proc, dry_run, max_fill_retries, db_trades, slots, mem, active, coins, cooldowns,
                   timers, now, flip_acted, live_4h, prev_ha, ha_series, kl_w, kl_msgs,
                   pub, priv, ex_pos, ex_orders, ex_sl, pos_msgs, boots>>

\* _execute_shutdown step 1: the open orders are listed and cancelled, or the
\* query raises and the step is skipped.
KsOrdersReturn(listed) ==
    /\ ks.pc = "orders"
    /\ ex_orders' = IF listed
                    THEN [oid \in DOMAIN ex_orders |-> CancelAt(ex_orders, oid)[oid]]
                    ELSE ex_orders
    /\ ks' = [ks EXCEPT !.pc = "positions"]
    /\ UNCHANGED <<proc, dry_run, max_fill_retries, db_kill, db_trades, slots, mem, active, coins,
                   cooldowns, timers, now, flip_acted, live_4h, prev_ha, ha_series,
                   kl_w, kl_msgs, pub, priv, ex_pos, ex_sl, pos_msgs, obs, boots>>

\* _execute_shutdown step 3, on the Trade objects and on the rows
MarkAllClosed(m, ids) ==
    [id \in TradeIds |->
        IF \E k \in DOMAIN ids : ids[k] = id
        THEN ClosedTrade(m[id], "KILL_SWITCH", 0, 0) ELSE m[id]]
RowsMarked(rows, m, ids) ==
    [id \in DOMAIN rows |-> IF \E k \in DOMAIN ids : ids[k] = id THEN m[id] ELSE rows[id]]

\* _execute_shutdown step 2: the positions are listed.  With none to close (or
\* when the query raises) the code runs on through step 3 to the notification.
KsPositionsReturn(listed) ==
    /\ ks.pc = "positions"
    /\ LET todo == IF listed THEN {s \in Symbols : ex_pos[s] > 0} ELSE {}
       IN IF todo # {}
          THEN /\ ks' = [ks EXCEPT !.pc = "closing", !.todo = todo]
               /\ UNCHANGED <<mem, db_trades, active>>
          ELSE /\ mem' = MarkAllClosed(mem, active)
               /\ db_trades' = RowsMarked(db_trades, mem', active)
               /\ active' = <<>>
               /\ ks' = [ks EXCEPT !.pc = "notify"]
    /\ UNCHANGED <<proc, dry_run, max_fill_retries, db_kill, slots, coins, cooldowns, timers, now,
                   flip_acted, live_4h, prev_ha, ha_series, kl_w, kl_msgs, pub, priv,
                   ex_pos, ex_orders, ex_sl, pos_msgs, obs, boots>>

\* _execute_shutdown step 2: the exchange executes the market close of one
\* listed position (or the call fails); the response is still on its way.
KsClose(symbol, done) ==
    /\ ks.pc = "closing"
    /\ symbol \in ks.todo
    /\ ex_pos' = IF done THEN [ex_pos EXCEPT ![symbol] = 0] ELSE ex_pos
    /\ ex_sl' = StopAfter(ex_sl, ex_pos', symbol)
    /\ pos_msgs' = MsgsAfter(pos_msgs, ex_pos, ex_pos', symbol)
    /\ ks' = [ks EXCEPT !.todo = @ \ {symbol},
                        !.pc = IF ks.todo = {symbol} THEN "mark" ELSE "closing"]
    /\ UNCHANGED <<proc, dry_run, max_fill_retries, db_kill, db_trades, slots, mem, active, coins,
                   cooldowns, timers, now, flip_acted, live_4h, prev_ha, ha_series,
                   kl_w, kl_msgs, pub, priv, ex_orders, obs, boots>>

\* _execute_shutdown step 3 after the last close returned: every trade of the
\* active set is marked CLOSED with KILL_SWITCH; then the notification.
KsMark ==
    /\ ks.pc = "mark"
    /\ mem' = MarkAllClosed(mem, active)
    /\ db_trades' = RowsMarked(db_trades, mem', active)
    /\ active' = <<>>
    /\ ks' = [ks EXCEPT !.pc = "notify"]
    /\ UNCHANGED <<proc, dry_run, max_fill_retries, db_kill, slots, coins, cooldowns, timers, now,
                   flip_acted, live_4h, prev_ha, ha_series, kl_w, kl_msgs, pub, priv,
                   ex_pos, ex_orders, ex_sl, pos_msgs, obs, boots>>

\* _execute_shutdown step 4 returns: the shutdown is complete, the loop sleeps.
KsNotifyReturn ==
    /\ ks.pc = "notify"
    /\ ks' = [ks EXCEPT !.pc = "idle"]
    /\ UNCHANGED <<proc, dry_run, max_fill_retries, db_kill, db_trades, slots, mem, active, coins,
                   cooldowns, timers, now, flip_acted, live_4h, prev_ha, ha_series,
                   kl_w, kl_msgs, pub, priv, ex_pos, ex_orders, ex_sl, pos_msgs, obs, boots>>

\* ----------------------------------------------------------- coin refresh

\* Bot._coin_refresh_loop: the symbols whose streams and HA state are dropped
SafeToRemove(cs, removed) == {s \in removed : ~IsInTrade(cs, s)}

\* Bot._coin_refresh_loop: one refresh with the universe the exchange ranks top.
CoinRefresh(universe) ==
    /\ proc = "running"
    /\ LET old == {s \in Symbols : coins[s].tracked}
           added == universe \ old
           removed == old \ universe
           gone == SafeToRemove(RefreshCoins(coins, universe), removed)
       IN /\ universe # old
          /\ coins' = RefreshCoins(coins, universe)
          /\ ha_series' = [s \in Symbols |->
                IF s \in added THEN BuildFromHistory(History(kl_w[s]), ha_series[s], prev_ha[s])[1]
                ELSE IF s \in gone THEN <<>> ELSE ha_series[s]]
          /\ prev_ha' = [s \in Symbols |->
                IF s \in added THEN BuildFromHistory(History(kl_w[s]), ha_series[s], prev_ha[s])[2]
                ELSE IF s \in gone THEN NoHA ELSE prev_ha[s]]
    /\ UNCHANGED <<proc, dry_run, max_fill_retries, db_kill, db_trades, slots, mem, active, cooldowns,
                   timers, now, flip_acted, live_4h, kl_w, kl_msgs, pub, priv, ks,
                   ex_pos, ex_orders, ex_sl, pos_msgs, obs, boots>>

\* ------------------------------------------------- tickers and trailing

\* _check_tp_levels: the levels marked hit at a price
MarkHits(trade, price) ==
    [trade EXCEPT !.tp_levels =
        [n \in DOMAIN trade.tp_levels |->
            IF ~trade.tp_levels[n].hit /\ TpReached(trade, price, trade.tp_levels[n])
            THEN [trade.tp_levels[n] EXCEPT !.hit = TRUE] ELSE trade.tp_levels[n]]]

\* _check_tp_levels: new_highest after the loop over the levels
NewHighest(trade, price) ==
    LET hits == {n \in DOMAIN trade.tp_levels :
                    ~trade.tp_levels[n].hit /\ TpReached(trade, price, trade.tp_levels[n])}
                \cup {trade.highest_tp_reached}
    IN CHOOSE n \in hits : \A k \in hits : k <= n

\* _check_tp_levels: the level whose price becomes the stop at a new highest
TargetSlLevel(new_highest) == new_highest - 1

\* RiskManager.check_price over the trades of `queue`, up to the first
\* set_trading_stop it has to wait for: the Trade objects, the rows, where the
\* public task stands, and the trades whose update the guard refused.
RECURSIVE CheckPrice(_, _, _, _, _, _)
CheckPrice(queue, m, rows, symbol, price, refused) ==
    IF queue = <<>> THEN [mem |-> m, rows |-> rows, pub |-> IdlePub, refused |-> refused]
    ELSE LET id == Head(queue)
             t == m[id]
         IN IF t.symbol # symbol \/ t.status # "OPEN" \/ t.tp_levels = <<>>
            THEN CheckPrice(Tail(queue), m, rows, symbol, price, refused)
            ELSE LET new_highest == NewHighest(t, price)
                     hit == MarkHits(t, price)
                     adv == [hit EXCEPT !.highest_tp_reached = new_highest]
                     new_sl == GetTpPrice(t, TargetSlLevel(new_highest))
                 IN IF new_highest <= t.highest_tp_reached
                    THEN CheckPrice(Tail(queue), [m EXCEPT ![id] = hit], rows, symbol,
                                    price, refused)
                    ELSE IF new_highest >= 2 /\ new_sl # 0 /\ ~SlRefused(t, new_sl)
                    THEN [mem |-> [m EXCEPT ![id] = adv], rows |-> rows,
                          pub |-> [IdlePub EXCEPT !.pc = "trail", !.symbol = symbol,
                                                  !.tid = id, !.sl = new_sl,
                                                  !.mark = price, !.rest = Tail(queue)],
                          refused |-> refused]
                    ELSE CheckPrice(Tail(queue), [m EXCEPT ![id] = adv],
                                    [rows EXCEPT ![id] = adv], symbol, price,
                                    IF new_highest >= 2 /\ new_sl # 0
                                    THEN refused \cup {id} ELSE refused)

\* SignalEngine.on_ticker with a mark price for `symbol`
OnTicker(symbol, price) ==
    /\ proc = "running"
    /\ pub.pc = "idle"
    /\ coins[symbol].tracked
    /\ LET r == CheckPrice(active, mem, db_trades, symbol, price, obs.sl_refused)
       IN /\ mem' = r.mem
          /\ db_trades' = r.rows
          /\ pub' = r.pub
          /\ obs' = [obs EXCEPT !.sl_refused = r.refused]
    /\ UNCHANGED <<proc, dry_run, max_fill_retries, db_kill, slots, active, coins, cooldowns, timers, now,
                   flip_acted, live_4h, prev_ha, ha_series, kl_w, kl_msgs, priv, ks,
                   ex_pos, ex_orders, ex_sl, pos_msgs, boots>>

\* _update_sl: set_trading_stop returns; the row is written and check_price
\* goes on with the rest of its trades.
TrailReturn(ok) ==
    /\ pub.pc = "trail"
    /\ ok => ex_pos[pub.symbol] > 0
    /\ LET m2 == IF ok THEN [mem EXCEPT ![pub.tid].current_sl_price = pub.sl] ELSE mem
           rows2 == [db_trades EXCEPT ![pub.tid] = m2[pub.tid]]
           r == CheckPrice(pub.rest, m2, rows2, pub.symbol, pub.mark, obs.sl_refused)
       IN /\ mem' = r.mem
          /\ db_trades' = r.rows
          /\ pub' = r.pub
          /\ obs' = [obs EXCEPT !.sl_refused = r.refused,
                                !.sl_fail = IF ok THEN @ \ {pub.tid} ELSE @ \cup {pub.tid},
                                !.sl_acked[pub.tid] = IF ok THEN pub.sl ELSE @]
    /\ ex_sl' = IF ok THEN [ex_sl EXCEPT ![pub.symbol] = pub.sl] ELSE ex_sl
    /\ UNCHANGED <<proc, dry_run, max_fill_retries, db_kill, slots, active, coins, cooldowns, timers, now,
                   flip_acted, live_4h, prev_ha, ha_series, kl_w, kl_msgs, priv, ks,
                   ex_pos, ex_orders, pos_msgs, boots>>

\* set_trading_stop of setup_trade_risk or _update_sl reaches the exchange,
\* which sets the stop, but the response does not come back (timeout,
\* connection reset): _request re-raises, the exception leaves the handler and
\* the lines after the call never run.
StopSetThenRaise ==
    /\ pub.pc \in {"sl", "trail"}
    /\ ex_pos[pub.symbol] > 0
    /\ ex_sl' = [ex_sl EXCEPT ![pub.symbol] = pub.sl]
    /\ pub' = IdlePub
    /\ obs' = [obs EXCEPT !.sl_acked[pub.tid] = pub.sl,
                          !.sl_fail = IF pub.pc = "trail" THEN @ \cup {pub.tid} ELSE @]
    /\ UNCHANGED <<proc, dry_run, max_fill_retries, db_kill, db_trades, slots, mem, active, coins,
                   cooldowns, timers, now, flip_acted, live_4h, prev_ha, ha_series,
                   kl_w, kl_msgs, priv, ks, ex_pos, ex_orders, pos_msgs, boots>>

\* ---------------------------------------------------------- specifications

\* 10001 stands for every other error code of the exchange.
RetCodes == {0, PostOnlyRejectA, 10001}

\* The entry path of _process_signal and execute_entry
EntrySteps ==
    \/ \E book \in Books : BookReturn(book)
    \/ \E ret_code \in RetCodes : PlaceReturn(ret_code)
    \/ \E found \in BOOLEAN : PollFilled(found, 0)
    \/ \E timeout \in BOOLEAN : PollNotFilled(timeout)
    \/ \E ok \in BOOLEAN : SlReturn(ok)
    \/ \E done \in BOOLEAN : CloseReturn(done)
    \/ PubRaise

\* The exchange, the private stream and the cooldown timers
CloseSteps ==
    \/ \E oid \in 1..(MaxTrades * MaxFillRetries) : ExFill(oid)
    \/ \E symbol \in Symbols : ExPositionClosed(symbol)
    \/ \E symbol \in Symbols, pnl \in PnlValues : OnPositionUpdate(symbol, pnl)
    \/ ExitNotifyReturn
    \/ \E timer \in timers : CooldownTimer(timer)

KillSwitchSteps ==
    \/ \E listed \in BOOLEAN, upnl \in UpnlValues : KsCheck(listed, upnl)
    \/ \E listed \in BOOLEAN : KsOrdersReturn(listed)
    \/ \E listed \in BOOLEAN : KsPositionsReturn(listed)
    \/ \E symbol \in Symbols, done \in BOOLEAN : KsClose(symbol, done)
    \/ KsMark
    \/ KsNotifyReturn

Next ==
    \/ Boot
    \/ Crash
    \/ OperatorClear
    \/ Tick
    \/ \E symbol \in Symbols : OnKline240Live(symbol)
    \/ \E symbol \in Symbols : OnKline240Confirmed(symbol)
    \/ \E symbol \in Symbols : OnKline5(symbol)
    \/ EntrySteps
    \/ CloseSteps
    \/ KillSwitchSteps
    \/ \E universe \in Universes : CoinRefresh(universe)

Spec == Init /\ [][Next]_vars

\* The risk manager at work: entries with either ATR, on the long side (the
\* exchange in window 1) or the short side (window 0), mark prices, trailing
\* updates with every outcome, closes and restarts.
InitRisk ==
    /\ InitCommon
    /\ dry_run = FALSE
    /\ max_fill_retries = 1
    /\ \E w \in {0, 1} : kl_w = [s \in Symbols |-> w]

NextRisk ==
    \/ BootRun({"BTC"})
    \/ Crash
    \/ OnKline240Live("BTC")
    \/ OnKline5("BTC")
    \/ \E book \in Books : BookReturn(book)
    \/ \E ret_code \in RetCodes : PlaceReturn(ret_code)
    \/ \E found \in BOOLEAN, atr \in AtrValues : PollFilled(found, atr)
    \/ \E timeout \in BOOLEAN : PollNotFilled(timeout)
    \/ \E ok \in BOOLEAN : SlReturn(ok)
    \/ \E done \in BOOLEAN : CloseReturn(done)
    \/ PubRaise
    \/ \E oid \in 1..(MaxTrades * MaxFillRetries) : ExFill(oid)
    \/ ExPositionClosed("BTC")
    \/ \E pnl \in PnlValues : OnPositionUpdate("BTC", pnl)
    \/ ExitNotifyReturn
    \/ \E price \in MarkPrices : OnTicker("BTC", price)
    \/ \E ok \in BOOLEAN : TrailReturn(ok)

SpecRisk == InitRisk /\ [][NextRisk]_vars

\* The same with set_trading_stop calls whose response is lost.
NextStops ==
    \/ NextRisk
    \/ StopSetThenRaise

SpecStops == InitRisk /\ [][NextStops]_vars

\* Flip tracking under any arrival order of 4h klines, in dry-run and in live
\* mode, with the entry steps a repeated signal runs into.
InitFlip ==
    /\ InitCommon
    /\ dry_run \in BOOLEAN
    /\ max_fill_retries = 1
    /\ kl_w = [s \in Symbols |-> 1]

NextFlip ==
    \/ BootRun({"BTC"})
    \/ \E w \in 0..MaxWindow, confirmed \in BOOLEAN : DeliverKline240("BTC", w, confirmed)
    \/ OnKline5("BTC")
    \/ DryNotifyReturn
    \/ \E book \in Books : BookReturn(book)
    \/ \E ret_code \in RetCodes : PlaceReturn(ret_code)
    \/ \E found \in BOOLEAN : PollFilled(found, 0)
    \/ \E timeout \in BOOLEAN : PollNotFilled(timeout)
    \/ \E ok \in BOOLEAN : SlReturn(ok)
    \/ \E done \in BOOLEAN : CloseReturn(done)
    \/ PubRaise
    \/ \E oid \in 1..(MaxTrades * MaxFillRetries) : ExFill(oid)

SpecFlip == InitFlip /\ [][NextFlip]_vars

\* Two windows of one symbol in the exchange's order, with entries, closes,
\* cooldowns, the clock and restarts: a trade of window 0 can close and leave
\* its symbol cooling down when window 1 flips.
InitCooldown ==
    /\ InitCommon
    /\ dry_run = FALSE
    /\ max_fill_retries = 1
    /\ kl_w = [s \in Symbols |-> 0]

NextCooldown ==
    \/ BootRun({"BTC"})
    \/ Crash
    \/ Tick
    \/ OnKline240Live("BTC")
    \/ OnKline240Confirmed("BTC")
    \/ OnKline5("BTC")
    \/ EntrySteps
    \/ CloseSteps

SpecCooldown == InitCooldown /\ [][NextCooldown]_vars

\* The fee an execution message carries
ExecFees == {1}

\* Closes around the freeze threshold: realised P&L that takes a slot of
\* InitialBalance just below, onto and just above MinBalance, with the
\* execution fees and restarts, so that fees reach complete_trade too.
ClosePnls == {MinBalance - InitialBalance - 1, MinBalance - InitialBalance,
              MinBalance - InitialBalance + 1, 2}

NextComplete ==
    \/ BootRun({"BTC"})
    \/ Crash
    \/ OnKline240Live("BTC")
    \/ OnKline5("BTC")
    \/ EntrySteps
    \/ \E oid \in 1..(MaxTrades * MaxFillRetries) : ExFill(oid)
    \/ ExPositionClosed("BTC")
    \/ \E order_id \in 1..(MaxTrades * MaxFillRetries), exec_fee \in ExecFees :
          OnExecution(order_id, exec_fee)
    \/ \E pnl \in ClosePnls : OnPositionUpdate("BTC", pnl)
    \/ ExitNotifyReturn

SpecComplete == InitCooldown /\ [][NextComplete]_vars

\* The same with the scheduling the event loop gives: the clock advances, a
\* cooldown timer task whose sleep is over runs, and a process that is down is
\* started again.  Nothing obliges the process to crash.
SpecCooldownLive ==
    /\ SpecCooldown
    /\ WF_vars(Tick)
    /\ WF_vars(\E timer \in timers : CooldownTimer(timer))
    /\ WF_vars(BootRun({"BTC"}))

\* execute_entry with one and with several attempts (the second attempt is
\* past post_only_retries and goes out as GTC), under every outcome of the
\* order book query, the order placement and the fill wait, for the signals of
\* two windows.  Every awaited call of the entry path returns or raises and
\* the fill wait has a deadline, so a step of the entry path that can be taken
\* is taken.
InitEntry ==
    /\ InitCommon
    /\ dry_run = FALSE
    /\ max_fill_retries \in 1..MaxFillRetries
    /\ kl_w = [s \in Symbols |-> 0]

NextEntry ==
    \/ BootRun({"BTC"})
    \/ OnKline240Live("BTC")
    \/ OnKline240Confirmed("BTC")
    \/ OnKline5("BTC")
    \/ EntrySteps
    \/ \E oid \in 1..(MaxTrades * MaxFillRetries) : ExFill(oid)

SpecEntry == InitEntry /\ [][NextEntry]_vars /\ WF_vars(EntrySteps)

\* Two tracked symbols whose windows flip together: the 5m kline of the second
\* arrives while the signal of the first is still being processed.
InitSignals ==
    /\ InitCommon
    /\ dry_run = FALSE
    /\ max_fill_retries = 1
    /\ kl_w = [s \in Symbols |-> 1]

NextSignals ==
    \/ BootRun(Symbols)
    \/ \E symbol \in Symbols : OnKline240Live(symbol)
    \/ \E symbol \in Symbols : OnKline5(symbol)
    \/ EntrySteps
    \/ \E oid \in 1..(MaxTrades * MaxFillRetries) : ExFill(oid)

SpecSignals == InitSignals /\ [][NextSignals]_vars

\* Closes from every side: the stop or a liquidation, the kill switch's market
\* close, repeated position messages of size 0, and restarts.
NextSettle ==
    \/ Boot
    \/ Crash
    \/ OnKline240Live("BTC")
    \/ OnKline5("BTC")
    \/ EntrySteps
    \/ \E oid \in 1..(MaxTrades * MaxFillRetries) : ExFill(oid)
    \/ ExPositionClosed("BTC")
    \/ ExPositionResent("BTC")
    \/ \E pnl \in PnlValues : OnPositionUpdate("BTC", pnl)
    \/ ExitNotifyReturn
    \/ KillSwitchSteps

SpecSettle == Init /\ [][NextSettle]_vars

\* Both symbols with their tickers: the mark price of one symbol arrives on
\* the public stream while the other symbol's signal may be under way.
NextTicks ==
    \/ NextSignals
    \/ \E symbol \in Symbols, price \in MarkPrices : OnTicker(symbol, price)
    \/ \E ok \in BOOLEAN : TrailReturn(ok)

SpecTicks == InitSignals /\ [][NextTicks]_vars

\* The topics the engine registers a handler for (Bot.start)
HandledTopics == {"kline.240", "kline.5", "kline.15", "tickers"}

\* BybitWSManager.subscribe_symbols with subscribe_public: the topics of the
\* symbols join the subscription set, a topic being <<prefix, symbol>>
SubscribeSymbols(public_subs, symbols) ==
    public_subs \cup {<<prefix, symbol>> : prefix \in {"kline.240", "kline.15", "tickers"},
                                           symbol \in symbols}

\* BybitWSManager._public_subs: Bot.start subscribes the selector's symbols,
\* and a process that is down has no subscription.
PublicSubs ==
    IF proc = "running"
    THEN SubscribeSymbols({}, {symbol \in Symbols : coins[symbol].tracked})
    ELSE {}

\* The exchange pushes a message of a subscribed topic and _dispatch hands it
\* to the handler registered for its prefix.  on_kline_15 feeds the ATR engine,
\* whose value enters the model where setup_trade_risk reads it.
DeliverPublic(prefix, symbol, w, confirmed, price) ==
    /\ <<prefix, symbol>> \in PublicSubs
    /\ CASE prefix = "kline.240" -> DeliverKline240(symbol, w, confirmed)
         [] prefix = "kline.5" -> OnKline5(symbol)
         [] prefix = "tickers" -> OnTicker(symbol, price)
         [] prefix = "kline.15" -> UNCHANGED vars

\* The public stream as the exchange serves it: only subscribed topics arrive.
NextSubs ==
    \/ BootRun(Symbols)
    \/ Crash
    \/ \E prefix \in HandledTopics, symbol \in Symbols, w \in 0..MaxWindow,
          confirmed \in BOOLEAN, price \in MarkPrices :
            DeliverPublic(prefix, symbol, w, confirmed, price)

SpecSubs == InitSignals /\ [][NextSubs]_vars

\* The HA engine on its own: the startup build over a confirmed history of any
\* length up to one past the retention, then confirmed candles of either
\* shape.
InitHA ==
    /\ InitCommon
    /\ dry_run = FALSE
    /\ max_fill_retries = 1
    /\ \E w \in -1..HaSeriesCap : kl_w = [s \in Symbols |-> w]

NextHA ==
    \/ BootRun({"BTC"})
    \/ \E d \in {0, 1} : DeliverKline240("BTC", kl_w["BTC"] + d, TRUE)

SpecHA == InitHA /\ [][NextHA]_vars

\* ------------------------------------------------------------- properties

\* The trades of a symbol that the trades table holds as PENDING, FILLING or OPEN
ActiveRows(symbol) ==
    {id \in DOMAIN db_trades :
        db_trades[id].symbol = symbol /\ db_trades[id].status \in ActiveStatuses}

\* C1 (I-SYM-UNIQ): in every reachable state a symbol has at most one trade
\* whose status is PENDING, FILLING or OPEN.
C1_SymUniq == \A symbol \in Symbols : Cardinality(ActiveRows(symbol)) <= 1

\* C2 (I-SLOT-UNIQ): in every reachable state a slot has a current trade id
\* exactly when its state is ASSIGNED or IN_TRADE.
C2_SlotUniq ==
    \A i \in Slots :
        (slots[i].current_trade_id # 0) <=> (slots[i].state \in {"ASSIGNED", "IN_TRADE"})

\* A stop at new_sl protects more of the trade than one at old_sl.
MoreFavorable(side, new_sl, old_sl) ==
    IF side = "LONG" THEN new_sl > old_sl ELSE new_sl < old_sl

\* C3 (I-SL-MONO): once a trade has its initial stop, every later value of
\* current_sl_price, on the Trade object and in its row, is strictly more
\* favorable than the one before (higher for a long, lower for a short); and
\* when a new highest level n >= 2 asks for a stop at TP(n-1) that is not
\* strictly more favorable, the stop stays as it is and no set_trading_stop
\* call is started for the trade.
C3_SlMonotone ==
    [][/\ \A id \in DOMAIN db_trades :
            (/\ db_trades[id].current_sl_price # 0
             /\ db_trades'[id].current_sl_price # db_trades[id].current_sl_price)
            => MoreFavorable(db_trades[id].side, db_trades'[id].current_sl_price,
                             db_trades[id].current_sl_price)
       /\ \A id \in TradeIds :
            (/\ mem[id].current_sl_price # 0
             /\ mem'[id].status # "NONE"
             /\ mem'[id].current_sl_price # mem[id].current_sl_price)
            => MoreFavorable(mem[id].side, mem'[id].current_sl_price,
                             mem[id].current_sl_price)
       /\ \A id \in TradeIds :
            (/\ mem[id].current_sl_price # 0
             /\ mem'[id].highest_tp_reached > mem[id].highest_tp_reached
             /\ mem'[id].highest_tp_reached >= 2
             /\ ~MoreFavorable(mem[id].side,
                               GetTpPrice(mem[id], mem'[id].highest_tp_reached - 1),
                               mem[id].current_sl_price))
            => /\ mem'[id].current_sl_price = mem[id].current_sl_price
               /\ db_trades'[id].current_sl_price = db_trades[id].current_sl_price
               /\ ~(pub'.pc = "trail" /\ pub'.tid = id)]_vars

\* A trade whose stop has been trailed away from the initial one and that has
\* had a further update refused by the guard.
C3_Witness ==
    \E id \in obs.sl_refused :
        /\ mem[id].status = "OPEN"
        /\ mem[id].highest_tp_reached >= 3
        /\ mem[id].current_sl_price # mem[id].initial_sl_price
        /\ mem[id].current_sl_price = db_trades[id].current_sl_price
        /\ mem[id].current_sl_price = ex_sl[mem[id].symbol]

\* A trade the risk manager watches
Armed(trade) == trade.status = "OPEN" /\ trade.tp_levels # <<>>

\* The stop the ladder prescribes for the trade's highest level
LadderSl(trade) ==
    IF trade.highest_tp_reached <= 1 THEN trade.initial_sl_price
    ELSE GetTpPrice(trade, trade.highest_tp_reached - 1)

\* C4 (trailing relation): between tick handlers, whatever the set_trading_stop calls
\* returned, a watched trade's stop is the initial one while its highest level
\* is 0 or 1 and the price of TP(n-1) when its highest level is n >= 2.
C4_TrailingAnyOutcome ==
    pub.pc # "trail" =>
        \A id \in TradeIds : Armed(mem[id]) => mem[id].current_sl_price = LadderSl(mem[id])

\* What the code keeps of the trailing relation: between tick handlers a watched
\* trade's stop is the initial one while its highest level is 0 or 1; at highest
\* level n >= 2 it is the price of TP(n-1) if the exchange accepted the trade's
\* latest set_trading_stop call, and after a call that was rejected or failed it
\* is the initial stop or the price of a level up to n-1, whichever the last
\* accepted call left.
TrailingWhenAccepted ==
    pub.pc # "trail" =>
        \A id \in TradeIds :
            Armed(mem[id]) =>
                LET t == mem[id]
                    n == t.highest_tp_reached
                IN /\ n <= 1 => t.current_sl_price = t.initial_sl_price
                   /\ (n >= 2 /\ id \notin obs.sl_fail) =>
                          t.current_sl_price = GetTpPrice(t, n - 1)
                   /\ (n >= 2 /\ id \in obs.sl_fail) =>
                          t.current_sl_price \in
                              {t.initial_sl_price} \cup {GetTpPrice(t, k) : k \in 1..(n - 1)}

\* A watched trade whose stop was trailed once and whose latest update the
\* exchange did not accept: the stop is neither the initial one nor TP(n-1).
TrailingLagged ==
    /\ pub.pc # "trail"
    /\ \E id \in obs.sl_fail :
        /\ Armed(mem[id])
        /\ mem[id].highest_tp_reached >= 2
        /\ mem[id].current_sl_price # mem[id].initial_sl_price
        /\ mem[id].current_sl_price # LadderSl(mem[id])

\* C5 (I-FLIP-ONCE): for every symbol and every 4h window start, signal
\* processing is started at most once in a process lifetime, whatever the order
\* in which live 4h, confirmed 4h and confirmed 5m klines arrive.
C5_FlipOnce ==
    \A symbol \in Symbols : \A w \in DOMAIN obs.starts[symbol] : obs.starts[symbol][w] <= 1

\* A signal for the symbol is taken up in this step: on_kline_5 sets the flip
\* marker and calls _process_signal.
SignalProcessed(symbol) ==
    flip_acted'[symbol] # flip_acted[symbol] /\ flip_acted'[symbol] # -1

\* C6 (cooldown gate): when a signal is processed for a symbol whose
\* cooldown_until is later than the current time, no trade record is created,
\* no slot changes, no order is placed and the executor is not started.
C6_CooldownGate ==
    [][\A symbol \in Symbols :
            (SignalProcessed(symbol) /\ cooldowns[symbol] > now)
            => /\ db_trades' = db_trades
               /\ mem' = mem
               /\ slots' = slots
               /\ ex_orders' = ex_orders
               /\ pub'.pc = "idle"]_vars

\* A signal has been processed in window 1 for a symbol that is cooling down
\* while a slot is AVAILABLE and the symbol is in no trade: only the cooldown
\* stands between the signal and an entry.
C6_Witness ==
    \E symbol \in Symbols :
        /\ cooldowns[symbol] > now
        /\ flip_acted[symbol] = 1
        /\ obs.starts[symbol][1] = 1
        /\ ~IsInTrade(coins, symbol)
        /\ GetAvailableSlot(slots) # 0
        /\ pub.pc = "idle"
        /\ \A id \in DOMAIN db_trades : db_trades[id].status = "CLOSED"

\* C7 (global halt): while the kill switch is triggered, no step creates a
\* trade record, moves a slot to ASSIGNED or places an order.
C7_HaltedAfterTrigger ==
    [][(ks.triggered /\ ks'.triggered)
        => /\ Len(db_trades') = Len(db_trades)
           /\ \A i \in Slots : slots'[i].state = "ASSIGNED" => slots[i].state = "ASSIGNED"
           /\ Len(ex_orders') = Len(ex_orders)]_vars

\* C8 (shutdown marks the active trades): once the shutdown sequence has passed
\* its marking step, every trade that was OPEN in the active set when the
\* switch triggered is CLOSED with exit reason KILL_SWITCH.
C8_ClosedByKillSwitch ==
    (ks.triggered /\ ks.pc \in {"notify", "idle"})
    => \A id \in obs.ks_open :
          /\ db_trades[id].status = "CLOSED"
          /\ db_trades[id].exit_reason = "KILL_SWITCH"

\* C9 (trigger condition): the shutdown is entered only in a cycle in which the
\* slot balances plus the unrealised P&L the exchange holds for the open
\* positions are below the threshold, and at most once in a process lifetime.
C9_TriggerBelowThreshold ==
    /\ obs.ks_runs >= 1 => obs.ks_equity < KillSwitchThreshold
    /\ obs.ks_runs <= 1

\* What the code keeps of the trigger condition: the total the cycle computed,
\* with the unrealised P&L taken as 0 when the position query gave nothing, was
\* below the threshold, and the shutdown ran at most once.
TriggerBelowSampledTotal ==
    /\ obs.ks_runs >= 1 => obs.ks_total < KillSwitchThreshold
    /\ obs.ks_runs <= 1

\* C10 (boot-time safety): the step that triggers the kill switch leaves the
\* persisted flag set; a startup that finds the flag set returns at once and
\* touches nothing (slots, trades, coins, HA state, handlers); and the flag is
\* cleared by no step of the bot, only by the operator's.
C10_BootSafety ==
    [][/\ (~ks.triggered /\ ks'.triggered) => db_kill'
       /\ (db_kill /\ proc = "down" /\ proc' # "down")
            => /\ proc' = "refused"
               /\ UNCHANGED <<dry_run, max_fill_retries, db_kill, db_trades, slots, mem, active, coins,
                              cooldowns, timers, now, flip_acted, live_4h, prev_ha,
                              ha_series, kl_w, kl_msgs, pub, priv, ks, ex_pos,
                              ex_orders, ex_sl, pos_msgs, obs, boots>>
       /\ (db_kill /\ ~db_kill')
            => UNCHANGED <<proc, dry_run, max_fill_retries, db_trades, slots, mem, active, coins,
                           cooldowns, timers, now, flip_acted, live_4h, prev_ha,
                           ha_series, kl_w, kl_msgs, pub, priv, ks, ex_pos,
                           ex_orders, ex_sl, pos_msgs, obs, boots>>
       /\ proc = "refused" => proc' \in {"refused", "down"}]_vars

\* A startup after a triggered kill switch has been refused: the flag is still
\* set, the process that triggered it is gone, and a trade it left behind is
\* on record.
C10_Witness ==
    /\ proc = "refused"
    /\ db_kill
    /\ boots >= 1
    /\ Len(db_trades) >= 1
    /\ active = <<>>

\* C11: a trade goes from FILLING to OPEN, and its slot to IN_TRADE, only when
\* its entry order is filled at the exchange; an order that was cancelled
\* (by the exchange, or by the kill switch during the fill wait) never makes
\* the trade OPEN.
C11_OpenOnlyIfFilled ==
    [][\A id \in TradeIds :
        (mem[id].status = "FILLING" /\ mem'[id].status = "OPEN")
            => ex_orders[mem[id].order_id].status = "Filled"]_vars

\* The public task is inside execute_entry for a trade that is not yet filled
InEntry == pub.pc \in {"book", "place", "poll"} /\ mem[pub.tid].status = "FILLING"

\* The step in which execute_entry returns False and _process_signal settles
\* the failed entry
FillFailedStep == InEntry /\ pub'.pc = "idle" /\ mem'[pub.tid].status = "CANCELLED"

SlotMoney(sl, i) == <<sl[i].balance, sl[i].total_trades, sl[i].total_pnl>>

\* C12: when every fill attempt of an entry fails, the trade ends CANCELLED
\* with exit_reason FILL_FAILED (object and row), its slot is AVAILABLE with
\* the balance, total_trades and total_pnl it had before the signal (no step
\* from the assignment to the failure changes them), no cooldown or timer is
\* started, and the symbol's in-trade flag is cleared.
C12_FillFailure ==
    [][/\ InEntry => SlotMoney(slots', pub.slot) = SlotMoney(slots, pub.slot)
       /\ FillFailedStep =>
            /\ mem'[pub.tid].exit_reason = "FILL_FAILED"
            /\ db_trades'[pub.tid].status = "CANCELLED"
            /\ db_trades'[pub.tid].exit_reason = "FILL_FAILED"
            /\ slots'[pub.slot].state = "AVAILABLE"
            /\ cooldowns' = cooldowns
            /\ timers' = timers
            /\ ~IsInTrade(coins', pub.symbol)]_vars

\* The settling step on its own: it cancels the trade with FILL_FAILED, frees
\* the slot without touching its money, starts no cooldown and clears the flag.
FillFailureSettles ==
    [][FillFailedStep =>
            /\ mem'[pub.tid].exit_reason = "FILL_FAILED"
            /\ db_trades'[pub.tid].status = "CANCELLED"
            /\ db_trades'[pub.tid].exit_reason = "FILL_FAILED"
            /\ slots'[pub.slot].state = "AVAILABLE"
            /\ SlotMoney(slots', pub.slot) = SlotMoney(slots, pub.slot)
            /\ cooldowns' = cooldowns
            /\ timers' = timers
            /\ ~IsInTrade(coins', pub.symbol)]_vars

\* Entry orders placed for a trade
OrdersOf(id) == Cardinality({oid \in DOMAIN ex_orders : ex_orders[oid].tid = id})

\* C13: execute_entry places at most max_fill_retries entry orders per trade
\* and always terminates, whatever the order book queries, the placements
\* (PostOnly rejections, other errors) and the fill waits (timeouts) return.
C13_EntryTerminates ==
    /\ [](\A id \in TradeIds : OrdersOf(id) <= max_fill_retries)
    /\ (InEntry ~> ~InEntry)

\* An entry that used up all of several attempts, each with an order that
\* timed out, and has returned.
C13_Witness ==
    /\ max_fill_retries = MaxFillRetries
    /\ pub.pc = "idle"
    /\ \E id \in TradeIds :
        /\ mem[id].status = "CANCELLED"
        /\ mem[id].fill_attempts = MaxFillRetries
        /\ OrdersOf(id) = MaxFillRetries
        /\ \E oid \in DOMAIN ex_orders : ex_orders[oid].tid = id /\ ex_orders[oid].tif = "GTC"

\* The step in which signal processing ends for a filled trade whose initial
\* stop was not placed (set_trading_stop failed or raised)
SlFailedEnd ==
    /\ pub.pc \in {"sl", "close"}
    /\ pub'.pc = "idle"
    /\ proc' = "running"
    /\ \A k \in DOMAIN active' : active'[k] # pub.tid

\* C14: if the initial stop-loss cannot be placed after a fill, then when
\* signal processing for that signal ends the exchange holds no position on
\* the symbol (it was closed by the reduce-only market order) and the slot is
\* AVAILABLE with its balance unchanged.
C14_NoNakedPosition ==
    [][SlFailedEnd =>
        /\ ex_pos'[pub.symbol] = 0
        /\ slots'[pub.slot].state = "AVAILABLE"
        /\ slots'[pub.slot].balance = slots[pub.slot].balance]_vars

\* C15 (I-BAL-NON-NEG): every slot's balance is >= 0 in every reachable state,
\* whatever realised pnl and fees the closed trades report.
C15_BalanceNonNeg == \A i \in Slots : slots[i].state # "NONE" => slots[i].balance >= 0

\* C16: FROZEN is absorbing: a FROZEN slot never changes state again, is never
\* the slot get_available_slot returns and is never assigned to a trade,
\* whatever signals, cooldown timers (the one armed by the freezing close
\* included) and releases follow.
C16_FrozenAbsorbing ==
    [][\A i \in Slots :
        slots[i].state = "FROZEN" =>
            /\ slots'[i].state = "FROZEN"
            /\ slots'[i].current_trade_id = slots[i].current_trade_id
            /\ GetAvailableSlot(slots) # i]_vars

\* A FROZEN slot keeps its state in every step except those of an entry that
\* still holds the slot (mark_in_trade, release_slot).
FrozenUnlessHeldByEntry ==
    [][\A i \in Slots :
        (slots[i].state = "FROZEN" /\ pub.slot # i) => slots'[i].state = "FROZEN"]_vars

\* C17 (I-TP-MONO): from the success of its risk setup to its close a trade's
\* highest_tp_reached never decreases, under any mark prices: not on the Trade
\* object, not on the row, and not when a restart replaces the object by the
\* row (the row a process leaves behind holds no less than the object had).
C17_TpMonotone ==
    [][\A id \in DOMAIN db_trades :
        /\ (Armed(mem[id]) /\ Armed(mem'[id]))
             => mem'[id].highest_tp_reached >= mem[id].highest_tp_reached
        /\ (Armed(db_trades[id]) /\ Armed(db_trades'[id]))
             => db_trades'[id].highest_tp_reached >= db_trades[id].highest_tp_reached
        /\ (Armed(mem[id]) /\ Armed(db_trades[id]) /\ proc = "running" /\ proc' = "down")
             => db_trades[id].highest_tp_reached >= mem[id].highest_tp_reached]_vars

\* The same within one process lifetime and on the rows
TpMonotoneWhileRunning ==
    [][\A id \in DOMAIN db_trades :
        /\ (Armed(mem[id]) /\ Armed(mem'[id]))
             => mem'[id].highest_tp_reached >= mem[id].highest_tp_reached
        /\ (Armed(db_trades[id]) /\ Armed(db_trades'[id]))
             => db_trades'[id].highest_tp_reached >= db_trades[id].highest_tp_reached]_vars

\* The edges of the slot state machine
SlotEdges ==
    {<<"AVAILABLE", "ASSIGNED">>, <<"ASSIGNED", "IN_TRADE">>, <<"IN_TRADE", "COOLDOWN">>,
     <<"IN_TRADE", "FROZEN">>, <<"COOLDOWN", "AVAILABLE">>, <<"ASSIGNED", "AVAILABLE">>}

\* C18: every change of a slot's state is one of the edges AVAILABLE->ASSIGNED,
\* ASSIGNED->IN_TRADE, IN_TRADE->COOLDOWN, IN_TRADE->FROZEN,
\* COOLDOWN->AVAILABLE, ASSIGNED->AVAILABLE; no other transition occurs.
C18_SlotEdges ==
    [][\A i \in Slots :
        (slots[i].state # "NONE" /\ slots'[i].state # slots[i].state)
            => <<slots[i].state, slots'[i].state>> \in SlotEdges]_vars

\* An execution of _process_signal is between its first gate check and its end
Processing == pub.pc \in {"dry_notify", "book", "place", "poll", "sl", "close"}

\* A signal that on_kline_5 would take up and whose gates would all pass
SignalReady(symbol) ==
    /\ LiveSignal(symbol) # None
    /\ flip_acted[symbol] # live_4h[symbol].timestamp
    /\ GatesPass(symbol)

\* C19: signal processing is mutually exclusive.  While one execution is under
\* way no other creates a trade, assigns a slot or sets an in-trade flag; a
\* trade is created only by an execution that starts with none under way, on a
\* slot that is AVAILABLE and a symbol that is not in a trade at that moment,
\* and the step leaves the slot ASSIGNED to that trade and the symbol flagged.
C19_SignalMutex ==
    [][/\ Processing =>
            /\ Len(db_trades') = Len(db_trades)
            /\ \A i \in Slots : i # pub.slot => slots'[i] = slots[i]
            /\ \A s \in Symbols : s # pub.symbol => coins'[s] = coins[s]
       /\ Len(db_trades') # Len(db_trades) =>
            LET tid == Len(db_trades')
                t == db_trades'[tid]
            IN /\ tid = Len(db_trades) + 1
               /\ ~Processing
               /\ slots[t.slot_id].state = "AVAILABLE"
               /\ slots'[t.slot_id].state = "ASSIGNED"
               /\ slots'[t.slot_id].current_trade_id = tid
               /\ ~IsInTrade(coins, t.symbol)
               /\ IsInTrade(coins', t.symbol)
               /\ pub'.tid = tid]_vars

\* The signal of one symbol is being processed while the signal of the other
\* stands ready, every gate open to it.
C19_Witness ==
    /\ Processing
    /\ \E symbol \in Symbols : symbol # pub.symbol /\ SignalReady(symbol)

\* C20: a coin refresh that drops a symbol from the universe while the symbol
\* has an active trade (its in-trade flag is set) leaves the symbol subscribed
\* and keeps its HA state: the symbol is not among those the refresh removes.
C20_RefreshKeepsTraded ==
    [][\A s \in Symbols :
        (proc = "running" /\ proc' = "running" /\ IsInTrade(coins, s) /\ ~coins'[s].tracked)
            => /\ prev_ha'[s] = prev_ha[s]
               /\ ha_series'[s] = ha_series[s]]_vars

\* C21: every slot that enters COOLDOWN becomes AVAILABLE again once its
\* cooldown period is over, also when the process is restarted while the slot
\* is in COOLDOWN.  (A cooldown seen at time 0 started at time 0, so its period
\* ends within the clock's range; a process that stays down for good releases
\* nothing and is left aside.)
C21_CooldownEnds ==
    \A i \in Slots :
        (slots[i].state = "COOLDOWN" /\ now = 0)
            ~> (slots[i].state = "AVAILABLE" \/ [](proc = "down"))

\* A trade of the symbol was closed through _handle_trade_closed (which starts
\* the symbol's cooldown)
ClosedOnce(symbol) ==
    \E id \in DOMAIN db_trades :
        /\ db_trades[id].symbol = symbol
        /\ db_trades[id].status = "CLOSED"
        /\ db_trades[id].exit_reason \in {"SL_HIT", "TRAILING_SL"}

\* C22: the per-symbol cooldown survives a restart: a signal for a symbol whose
\* last trade closed less than cooldown_minutes ago (at time 0 every close is
\* that recent) is rejected by the cooldown gate, whether or not the process
\* was restarted since the close.
C22_CooldownSurvivesRestart ==
    [][\A symbol \in Symbols :
            (SignalProcessed(symbol) /\ ClosedOnce(symbol) /\ now = 0)
            => /\ db_trades' = db_trades
               /\ mem' = mem
               /\ slots' = slots
               /\ ex_orders' = ex_orders
               /\ pub'.pc = "idle"]_vars

\* C23: in dry-run mode, processing a signal (from the step that takes it up
\* to the return of the notifier) places no order, never enters the entry path
\* (set-leverage, execute_entry), creates no trade record or Trade object and
\* leaves every slot and every coin's in-trade flag as they are; it only sends
\* a notifier message.
C23_DryRunFrame ==
    [][(dry_run /\ ((\E symbol \in Symbols : SignalProcessed(symbol)) \/ pub.pc = "dry_notify"))
        => /\ db_trades' = db_trades
           /\ mem' = mem
           /\ slots' = slots
           /\ coins' = coins
           /\ ex_orders' = ex_orders
           /\ ex_pos' = ex_pos
           /\ pub'.pc \in {"idle", "dry_notify"}]_vars

\* A dry-run signal that passed every gate; its notification is going out.
C23_Witness ==
    /\ dry_run
    /\ pub.pc = "dry_notify"
    /\ flip_acted[pub.symbol] = live_4h[pub.symbol].timestamp
    /\ GetAvailableSlot(slots) # 0
    /\ db_trades = <<>>

\* The engine state of a symbol is what build_from_history(cs) leaves in a
\* fresh engine, and this step is update(c)
BuiltThenUpdated(s, cs, c) ==
    /\ proc = "running"
    /\ <<ha_series[s], prev_ha[s]>> = BuildFromHistory(cs, <<>>, NoHA)
    /\ kl_msgs' = kl_msgs + 1
    /\ prev_ha'[s] = CalcSingle(c, prev_ha[s])

\* C24 (HA round-trip): build_from_history(cs) followed by update(c) leaves
\* the same state for the symbol (stored series and previous-HA pointer) as
\* build_from_history(cs + [c]), for every cs (the empty one and those past
\* the retention included) and every next candle c.
C24_HaRoundTrip ==
    [][\A s \in Symbols : \A d \in {0, 1} :
        LET cs == History(kl_w[s])
            c == Candle(kl_w[s] + d, ShapeOf(kl_w[s] + d), TRUE)
        IN BuiltThenUpdated(s, cs, c)
            => <<ha_series'[s], prev_ha'[s]>> = BuildFromHistory(Append(cs, c), <<>>, NoHA)]_vars

\* The round trip for histories shorter than the retention
HaRoundTripShort ==
    [][\A s \in Symbols : \A d \in {0, 1} :
        LET cs == History(kl_w[s])
            c == Candle(kl_w[s] + d, ShapeOf(kl_w[s] + d), TRUE)
        IN (BuiltThenUpdated(s, cs, c) /\ Len(cs) < HaSeriesCap)
            => <<ha_series'[s], prev_ha'[s]>> = BuildFromHistory(Append(cs, c), <<>>, NoHA)]_vars

\* The public task is inside a call of the notifier (the only one the model's
\* _process_signal waits for is the dry-run message)
InNotifierCall(p) == p.pc = "dry_notify"

\* C25: when the initial stop-loss placement fails after a fill, a notifier
\* message is emitted before signal processing ends: the step that ends the
\* processing on the emergency-close path is the return of a notifier call,
\* not that of close_position_market.
C25_SlFailureNotified ==
    [][(pub.pc = "close" /\ pub'.pc = "idle" /\ proc' = "running") => InNotifierCall(pub)]_vars

FeesReceived(order_id) == obs.exec_fees[order_id]

\* C27: when a trade closes, the amount applied to its slot is the pnl minus
\* the execution fees received for the trade's entry order.
C27_NetOfFees ==
    [][\A tid \in TradeIds :
          (/\ proc = "running" /\ proc' = "running"
           /\ mem[tid].status = "OPEN" /\ mem'[tid].status = "CLOSED")
          => slots'[mem[tid].slot_id].balance =
                 slots[mem[tid].slot_id].balance + mem'[tid].pnl
                     - FeesReceived(mem[tid].order_id)]_vars

\* A step of the running process that closes trade tid
ClosesTrade(tid) ==
    /\ proc = "running" /\ proc' = "running"
    /\ mem[tid].status = "OPEN" /\ mem'[tid].status = "CLOSED"

\* C28: complete_trade with net = pnl - fees adds net to the balance and to
\* total_pnl, counts the trade, clears the trade reference, and freezes the
\* slot exactly when the new balance is strictly below min_balance; otherwise
\* (a balance equal to min_balance included) the slot goes to COOLDOWN.
C28_CompleteTrade ==
    [][\A tid \in TradeIds :
          ClosesTrade(tid) =>
              LET i == mem[tid].slot_id
                  net == mem'[tid].pnl - mem'[tid].fees
              IN /\ slots'[i].balance = slots[i].balance + net
                 /\ slots'[i].total_trades = slots[i].total_trades + 1
                 /\ slots'[i].total_pnl = slots[i].total_pnl + net
                 /\ slots'[i].current_trade_id = 0
                 /\ slots'[i].current_symbol = None
                 /\ slots'[i].state = "FROZEN" <=> slots'[i].balance < MinBalance
                 /\ slots'[i].state = "COOLDOWN" <=> slots'[i].balance >= MinBalance]_vars

\* A trade with fees has closed and left its slot exactly at min_balance, in COOLDOWN
C28_Witness ==
    \E i \in Slots : \E tid \in DOMAIN db_trades :
        /\ slots[i].balance = MinBalance
        /\ slots[i].state = "COOLDOWN"
        /\ slots[i].total_trades = 1
        /\ db_trades[tid].status = "CLOSED"
        /\ db_trades[tid].slot_id = i
        /\ db_trades[tid].fees > 0
        /\ slots[i].total_pnl = db_trades[tid].pnl - db_trades[tid].fees

\* place_order returns one of the two PostOnly rejection codes
PostOnlyRejected == PlaceReturn(PostOnlyRejectA) \/ PlaceReturn(PostOnlyRejectB)

\* C29: after a PostOnly rejection the executor re-attempts the same tier with
\* the same time in force, and the rejection does not use up one of the
\* max_fill_retries attempts.
C29_PostOnlyRejectKeepsTier ==
    [][PostOnlyRejected =>
          /\ pub'.pc = "book"
          /\ pub'.tid = pub.tid
          /\ pub'.attempt = pub.attempt
          /\ mem'[pub.tid].fill_attempts = mem[pub.tid].fill_attempts
          /\ TimeInForce(pub'.attempt) = TimeInForce(pub.attempt)]_vars

\* The step in which place_order returns an accepted order
OrderPlaced == pub.pc = "place" /\ Len(ex_orders') = Len(ex_orders) + 1

\* C30: within one execute_entry the orders of attempts 1..post_only_retries
\* are PostOnly and those of later attempts GTC; the attempts are numbered
\* from 1 without gaps, so no GTC order goes out before post_only_retries
\* maker-only attempts were made.
C30_MakerBeforeTaker ==
    /\ [][OrderPlaced =>
             LET order == ex_orders'[Len(ex_orders')]
             IN /\ order.tid = pub.tid
                /\ pub.attempt = mem[pub.tid].fill_attempts
                /\ pub.attempt \in 1..max_fill_retries
                /\ (pub.attempt <= PostOnlyRetries) => order.tif = "PostOnly"
                /\ (pub.attempt > PostOnlyRetries) => order.tif = "GTC"]_vars
    /\ [][/\ (pub.pc \notin {"book", "place", "poll"} /\ pub'.pc = "book") => pub'.attempt = 1
          /\ (pub.pc \in {"book", "place", "poll"} /\ pub'.pc \in {"book", "place", "poll"})
                => (pub'.tid = pub.tid /\ pub'.attempt \in {pub.attempt, pub.attempt + 1})]_vars
    /\ [](\A o1, o2 \in DOMAIN ex_orders :
             (o1 < o2 /\ ex_orders[o1].tid = ex_orders[o2].tid /\ ex_orders[o1].tif = "GTC")
                => ex_orders[o2].tif = "GTC")
    /\ [](\A id \in TradeIds :
             Cardinality({o \in DOMAIN ex_orders :
                             ex_orders[o].tid = id /\ ex_orders[o].tif = "PostOnly"})
                 <= PostOnlyRetries)

\* One entry placed a PostOnly order on attempt 1 and, after the wait ran out,
\* a GTC order on attempt 2
C30_Witness ==
    /\ pub.pc = "poll"
    /\ pub.attempt = PostOnlyRetries + 1
    /\ \E o1, o2 \in DOMAIN ex_orders :
          /\ o1 < o2
          /\ ex_orders[o1].tid = pub.tid /\ ex_orders[o2].tid = pub.tid
          /\ ex_orders[o1].tif = "PostOnly" /\ ex_orders[o1].status = "Cancelled"
          /\ ex_orders[o2].tif = "GTC" /\ ex_orders[o2].status = "New"

\* The recorded stop of trade id moves in this step of the running process
SlRecorded(id) ==
    /\ proc = "running" /\ proc' = "running"
    /\ mem[id].status \in ActiveStatuses
    /\ mem'[id].current_sl_price # mem[id].current_sl_price

\* Every OPEN trade, in memory and in its row, records the last stop the
\* exchange accepted for it
SlAsAccepted ==
    \A id \in DOMAIN db_trades :
        /\ db_trades[id].status = "OPEN" => db_trades[id].current_sl_price = obs.sl_acked[id]
        /\ (proc = "running" /\ mem[id].status = "OPEN")
              => mem[id].current_sl_price = obs.sl_acked[id]

\* current_sl_price moves only in a step in which set_trading_stop returns
\* retCode 0, and to the value the exchange then holds
SlOnlyOnAck ==
    [][\A id \in TradeIds :
          SlRecorded(id) => /\ pub.pc \in {"sl", "trail"} /\ pub.tid = id
                            /\ mem'[id].current_sl_price = pub.sl
                            /\ ex_sl'[mem[id].symbol] = pub.sl]_vars

\* C31: current_sl_price changes only when the exchange acknowledged the
\* set-trading-stop call, so that in every reachable state the recorded
\* current_sl_price of an OPEN trade is the last stop the exchange accepted
\* for it.
C31_SlAsAccepted == SlOnlyOnAck /\ []SlAsAccepted

\* Signal processing for another symbol is in its fill wait while `symbol` has
\* an OPEN trade under the risk manager's watch
TickerDuringEntry(symbol) ==
    /\ proc = "running"
    /\ pub.pc = "poll"
    /\ pub.symbol # symbol
    /\ coins[symbol].tracked
    /\ GetActiveTradeBySymbol(active, mem, symbol) # 0

\* C32: while signal processing for one symbol is in flight, a ticker of
\* another symbol with an OPEN trade is dispatched at once: its handler can
\* run without the signal processing having ended.
C32_TickerIndependent ==
    \A symbol \in Symbols :
        TickerDuringEntry(symbol) =>
            ENABLED (\E price \in MarkPrices : OnTicker(symbol, price))

\* C33: for every symbol passed to subscribe_symbols the public subscription
\* set holds each topic the engine has a handler for: kline.240, kline.15,
\* kline.5 and tickers of that symbol.
C33_SubscribedTopics ==
    \A symbol \in Symbols :
        (proc = "running" /\ coins[symbol].tracked)
            => \A prefix \in HandledTopics : <<prefix, symbol>> \in PublicSubs

\* With the subscriptions the code makes, no 5m evaluation ever takes a flip up
NoFlipEvaluated ==
    /\ \A symbol \in Symbols : flip_acted[symbol] = -1
    /\ db_trades = <<>>

\* Signal processing starts in this step for window w of the symbol
StartsFor(symbol, w) == obs'.starts[symbol][w] > obs.starts[symbol][w]

\* An entry of the symbol went through: a trade of it is or was OPEN
EntryWentThrough(symbol) ==
    \E id \in DOMAIN db_trades :
        db_trades[id].symbol = symbol /\ db_trades[id].status \in {"OPEN", "CLOSED"}

\* C34: the flip marker is set before the gates run, so once the first flip
\* signal of a window was rejected by a gate or its fill failed, no later 5m
\* evaluation of the same window starts signal processing for the symbol again
\* (in live mode, the window's own confirmed candle not having arrived).
C34_NoSecondStartAfterReject ==
    [][\A symbol \in Symbols : \A w \in DOMAIN obs.starts[symbol] :
          (/\ ~dry_run
           /\ StartsFor(symbol, w)
           /\ obs.starts[symbol][w] >= 1
           /\ prev_ha[symbol].timestamp # w) => EntryWentThrough(symbol)]_vars

\* C35: outside signal processing (every entry of the symbol having come to
\* its end), the exchange holds a position for a symbol only if a trade on
\* that symbol is OPEN with the position's size as its qty:
\* a fill racing with the timeout cancel leaves no position behind a CANCELLED
\* trade and no later tier adds a second order to a filled one.
C35_NoOrphanPosition ==
    \A symbol \in Symbols :
        (/\ proc = "running" /\ pub.pc = "idle" /\ ex_pos[symbol] > 0
         /\ \A id \in DOMAIN db_trades :
               db_trades[id].symbol = symbol => db_trades[id].status \notin {"PENDING", "FILLING"})
            => \E id \in DOMAIN db_trades : /\ db_trades[id].symbol = symbol
                                            /\ db_trades[id].status = "OPEN"
                                            /\ db_trades[id].qty = ex_pos[symbol]

\* The public task leaves signal processing in this step
ProcessingEnds ==
    /\ proc = "running" /\ proc' = "running"
    /\ pub.pc \in {"book", "place", "poll", "sl", "close"}
    /\ pub'.pc = "idle"

\* C36: when signal processing has ended, on every exit path, a REST call
\* that raises included, its slot is AVAILABLE or IN_TRADE, not ASSIGNED, and
\* its trade is not left PENDING or FILLING.
C36_NoSlotLeftAssigned ==
    [][ProcessingEnds =>
          /\ slots'[pub.slot].state # "ASSIGNED"
          /\ slots'[pub.slot].state \in {"AVAILABLE", "IN_TRADE"}
          /\ mem'[pub.tid].status \notin {"PENDING", "FILLING"}]_vars

\* The slots that hold trade id as their current trade
SlotsOf(id) ==
    {i \in Slots : slots[i].state \in {"ASSIGNED", "IN_TRADE"} /\ slots[i].current_trade_id = id}

\* C37: outside signal processing, every PENDING, FILLING or OPEN trade is
\* referenced by exactly one slot, ASSIGNED or IN_TRADE, whose current_trade_id
\* is the trade's id; no trade stays OPEN after its slot was released on the
\* SL-placement-failure path.
C37_ActiveTradeHasSlot ==
    (proc = "running" /\ pub.pc = "idle")
        => \A id \in DOMAIN db_trades :
              db_trades[id].status \in ActiveStatuses => Cardinality(SlotsOf(id)) = 1

\* C38: a slot in IN_TRADE references a trade whose status is OPEN, whatever
\* path closes trades, the kill switch included.
C38_InTradeSlotHasOpenTrade ==
    \A i \in Slots :
        slots[i].state = "IN_TRADE"
            => /\ slots[i].current_trade_id \in DOMAIN db_trades
               /\ db_trades[slots[i].current_trade_id].status = "OPEN"

\* The trades settled into slot i: its CLOSED rows
ClosedOn(i) == {id \in DOMAIN db_trades : db_trades[id].slot_id = i /\ db_trades[id].status = "CLOSED"}

\* A step that changes the money of slot i
SlotSettled(i) ==
    /\ slots[i].state # "NONE"
    /\ SlotMoney(slots', i) # SlotMoney(slots, i)

\* C39: each trade is settled into its slot at most once.  Every change of a
\* slot's balance or total_trades is the settlement of one trade that goes
\* from OPEN to CLOSED in that step, a CLOSED trade stays CLOSED, and so a
\* slot has counted no more trades than it has CLOSED rows, whatever position
\* messages of size 0 and kill-switch closes arrive.
C39_SettledOnce ==
    /\ [][\A i \in Slots :
             SlotSettled(i) =>
                 /\ slots'[i].total_trades = slots[i].total_trades + 1
                 /\ Cardinality({id \in DOMAIN db_trades :
                                    /\ db_trades[id].slot_id = i
                                    /\ db_trades[id].status = "OPEN"
                                    /\ db_trades'[id].status = "CLOSED"}) = 1]_vars
    /\ [][\A id \in DOMAIN db_trades :
             db_trades[id].status = "CLOSED" => db_trades'[id].status = "CLOSED"]_vars
    /\ [](\A i \in Slots : slots[i].total_trades <= Cardinality(ClosedOn(i)))

\* A trade was settled once, its position is gone, and a further position
\* message of size 0 for its symbol is waiting on the private stream
C39_Witness ==
    /\ proc = "running"
    /\ priv.pc = "idle"
    /\ \E id \in DOMAIN db_trades :
          /\ db_trades[id].status = "CLOSED"
          /\ db_trades[id].exit_reason = "SL_HIT"
          /\ slots[db_trades[id].slot_id].total_trades = 1
          /\ ex_pos[db_trades[id].symbol] = 0
          /\ db_trades[id].symbol \in pos_msgs

\* balance and total_pnl of slot i
BalanceAndPnl(sl, i) == <<sl[i].balance, sl[i].total_pnl>>

\* Every slot that exists holds its initial balance plus its total P&L
BalanceConserved ==
    \A i \in Slots : slots[i].state # "NONE" => slots[i].balance = InitialBalance + slots[i].total_pnl

\* assign_slot, mark_in_trade, release_slot and release_from_cooldown, applied
\* to the slots as they are, leave balance and total_pnl of every slot alone
OtherOpsKeepBalance ==
    \A i \in Slots, j \in Slots :
        /\ BalanceAndPnl(AssignSlot(slots, i, "BTC", 1), j) = BalanceAndPnl(slots, j)
        /\ BalanceAndPnl(MarkInTrade(slots, i), j) = BalanceAndPnl(slots, j)
        /\ BalanceAndPnl(ReleaseSlot(slots, i), j) = BalanceAndPnl(slots, j)
        /\ BalanceAndPnl(ReleaseFromCooldown(slots, i), j) = BalanceAndPnl(slots, j)

\* A step changes balance or total_pnl of an existing slot only as
\* complete_trade of a trade of that slot that the step closes
OnlyCompleteTradeMovesBalance ==
    [][\A i \in Slots :
          (slots[i].state # "NONE" /\ BalanceAndPnl(slots', i) # BalanceAndPnl(slots, i)) =>
              \E id \in DOMAIN db_trades :
                  /\ db_trades[id].slot_id = i
                  /\ db_trades[id].status # "CLOSED"
                  /\ db_trades'[id].status = "CLOSED"
                  /\ slots' = CompleteTrade(slots, i, db_trades'[id])]_vars

\* C40: balance conservation.  In every reachable state every slot has
\* balance = initial_balance + total_pnl; only complete_trade changes balance
\* or total_pnl, while assign_slot, mark_in_trade, release_slot and
\* release_from_cooldown leave both unchanged.
C40_BalanceConservation ==
    /\ [](BalanceConserved /\ OtherOpsKeepBalance)
    /\ OnlyCompleteTradeMovesBalance

\* A slot that settled a trade with a result other than 0, was released from
\* its cooldown and is assigned again
C40_Witness ==
    \E i \in Slots :
        /\ slots[i].total_trades >= 1
        /\ slots[i].total_pnl # 0
        /\ slots[i].state \in {"ASSIGNED", "IN_TRADE"}

====
